---------------------------- MODULE Spec2Model ----------------------------
(***************************************************************************)
(* A model of pkg/asset/installconfig/aws/validation.go: the validators    *)
(* of an AWS install configuration against the live state of the account.  *)
(*                                                                         *)
(* Strings that the code only compares or sorts (subnet ids, zone names,   *)
(* instance type names) are natural numbers, whose order stands for the    *)
(* lexicographic order of the strings.  A diagnostic (field.Error) is a    *)
(* record of its type, its field path, its offending value and its detail. *)
(***************************************************************************)
EXTENDS Integers, Sequences, FiniteSets, TLC

VARIABLES
    cfg,      \* the install configuration under validation (read-only)
    live,     \* the live state of the account (what a remote lookup returns)
    meta,     \* *Metadata: the per-run inventory cache
    pc,       \* position of the entry point that is running
    errs,     \* allErrs of the running entry point (its result, once returned)
    idx,      \* Validate: the index of the compute pool the loop is at
    out,      \* Validate: what each validator call returned, in call order
    result,   \* Validate: the error returned
    run,      \* the number of the validation run
    first     \* the outcome of the first run, once a second one has started

vars == <<cfg, live, meta, pc, errs, idx, out, result, run, first>>
validateVars == <<idx, out, result, run, first>>

----------------------------------------------------------------------------
(* Bounds of the model. *)

MaxSubnets == 3
NZones == 2
AddrBits == 3

SubnetIds == 1..MaxSubnets
Zones == 1..NZones

----------------------------------------------------------------------------
(* Sequences and sets. *)

Range(s) == {s[i] : i \in DOMAIN s}

RECURSIVE Pow2(_)
Pow2(n) == IF n = 0 THEN 1 ELSE 2 * Pow2(n - 1)

\* All orders in which the elements of S can be listed.
Orders(S) ==
    {s \in [1..Cardinality(S) -> S] : \A i, j \in DOMAIN s : i # j => s[i] # s[j]}

\* All lists without repetition of elements of S.
DistinctSeqs(S) == UNION {Orders(T) : T \in SUBSET S}

RECURSIVE SortedList(_)
SortedList(S) ==
    IF S = {} THEN <<>>
    ELSE LET m == CHOOSE x \in S : \A y \in S : x <= y
         IN <<m>> \o SortedList(S \ {m})

\* sort.Strings
SortStrings(keys) == SortedList(Range(keys))

\* The order in which a Go range statement visits the keys of a map: any order;
\* ord lists all possible keys, the map's keys are visited in ord's order.
MapRange(keys, ord) == SelectSeq(ord, LAMBDA id : id \in keys)

----------------------------------------------------------------------------
(* field.Path and field.Error. *)

NewPath(names) == [i \in DOMAIN names |-> [name |-> names[i], index |-> -1]]
Child(path, name) == Append(path, [name |-> name, index |-> -1])
Index(path, i) == Append(path, [name |-> "", index |-> i])

StrVal(s) == [kind |-> "string", v |-> <<s>>]
ListVal(l) == [kind |-> "list", v |-> l]
NilVal == [kind |-> "nil", v |-> <<>>]

Detail(msg, args) == [msg |-> msg, args |-> args]

Invalid(path, value, detail) ==
    [type |-> "Invalid value", field |-> path, value |-> value, detail |-> detail]
Required(path, detail) ==
    [type |-> "Required value", field |-> path, value |-> StrVal(0), detail |-> detail]
InternalError(path, err) ==
    [type |-> "Internal error", field |-> path, value |-> NilVal, detail |-> err]

\* No error value yet.
NoResult == [returned |-> FALSE, nil |-> TRUE, errs |-> <<>>]

----------------------------------------------------------------------------
(* CIDR arithmetic on addresses of AddrBits bits. *)

Addrs == 0..(Pow2(AddrBits) - 1)

\* The address with all but the first len bits cleared.
MaskIP(ip, len) == ip - (ip % Pow2(AddrBits - len))

\* A CIDR string: malformed, or an address as written and a prefix length.
BadCIDR == [ok |-> FALSE, ip |-> 0, len |-> 0]
CIDR(ip, len) == [ok |-> TRUE, ip |-> ip, len |-> len]

\* net.ParseCIDR: the address as written, and the network it lies in.
ParseCIDR(s) ==
    [err |-> ~s.ok, ip |-> s.ip, net |-> [ip |-> MaskIP(s.ip, s.len), len |-> s.len]]

\* net.IPNet.Contains
Contains(network, ip) == MaskIP(network.ip, network.len) = MaskIP(ip, network.len)

\* The addresses of a network.
AddrsOf(network) == {a \in Addrs : Contains(network, a)}

----------------------------------------------------------------------------
(* The inventory cache (Metadata). *)

Keys == {"privateSubnets", "publicSubnets", "availabilityZones", "instanceTypes"}

Unfetched == [state |-> "unfetched", val |-> <<>>]

NewMetadata ==
    [memo |-> [k \in Keys |-> Unfetched],
     remote |-> [k \in Keys |-> 0],
     calls |-> [k \in Keys |-> 0],
     returned |-> [k \in Keys |-> {}]]

\* What a second run remembers of the first: its result and its lookups.
NoFirst == [result |-> NoResult, memo |-> NewMetadata.memo]

LookupErr(k) == Detail("lookup failed", <<>>)

\* The remote call behind key k: fails if k \in fail, else returns the live data.
Remote(k, fail) ==
    IF k \in fail THEN [state |-> "err", val |-> <<>>]
    ELSE [state |-> "ok", val |-> live[k]]

MemoNone(m, k, fail) ==
    LET r == Remote(k, fail)
    IN [r |-> r, meta |-> [m EXCEPT !.remote[k] = @ + 1]]

MemoOkOnly(m, k, fail) ==
    IF m.memo[k].state = "ok" THEN [r |-> m.memo[k], meta |-> m]
    ELSE LET r == Remote(k, fail)
         IN [r |-> r, meta |-> [m EXCEPT !.memo[k] = r, !.remote[k] = @ + 1]]

\* get(kind, params): the memoized result, a memoized error included; the remote
\* call is made on the first call for the key only.
Memo(m, k, fail) ==
    IF m.memo[k].state # "unfetched" THEN [r |-> m.memo[k], meta |-> m]
    ELSE LET r == Remote(k, fail)
         IN [r |-> r, meta |-> [m EXCEPT !.memo[k] = r, !.remote[k] = @ + 1]]

\* A lookup through the cache, as a validator sees it: (value, error) and the
\* cache after the call.
Get(m, k, fail) ==
    LET g == Memo(m, k, fail)
    IN [err |-> g.r.state = "err",
        val |-> g.r.val,
        meta |-> [g.meta EXCEPT !.calls[k] = @ + 1,
                                !.returned[k] = @ \cup {g.r}]]

PrivateSubnets(m, fail) == Get(m, "privateSubnets", fail)
PublicSubnets(m, fail) == Get(m, "publicSubnets", fail)
AvailabilityZones(m, fail) == Get(m, "availabilityZones", fail)
InstanceTypes(m, fail) == Get(m, "instanceTypes", fail)

----------------------------------------------------------------------------
(* validateSubnets and its helpers. *)

\* idxMap[id], 0 for an id the map does not hold.
IdxGet(idxMap, id) == IF id \in DOMAIN idxMap THEN idxMap[id] ELSE 0

\* for idx, id := range subnets { if _, ok := live[id]; ok { idxMap[id] = idx } }
SubnetsIdx(subnets, liveSubnets) ==
    [id \in Range(subnets) \cap DOMAIN liveSubnets |->
        (CHOOSE i \in DOMAIN subnets :
            subnets[i] = id /\ \A j \in DOMAIN subnets : subnets[j] = id => j <= i) - 1]

OutsideMsg(ip) == Detail("subnet's CIDR range start %s is outside of the specified machine networks", <<ip>>)

AllNetworksContainIP(fldPath, networks, subnetName, ip) ==
    IF \A i \in DOMAIN networks : Contains(networks[i], ip)
    THEN <<>>
    ELSE <<Invalid(fldPath, StrVal(subnetName), OutsideMsg(ip))>>

FirstNetworkContainsIP(fldPath, networks, subnetName, ip) ==
    IF networks # <<>> /\ Contains(networks[1], ip)
    THEN <<>>
    ELSE <<Invalid(fldPath, StrVal(subnetName), OutsideMsg(ip))>>

validateMachineNetworksContainIP(fldPath, networks, subnetName, ip) ==
    IF \E i \in DOMAIN networks : Contains(networks[i], ip)
    THEN <<>>
    ELSE <<Invalid(fldPath, StrVal(subnetName), OutsideMsg(ip))>>

ParseErrMsg == Detail("invalid CIDR address", <<>>)

RECURSIVE SubnetCIDRLoop(_, _, _, _, _)
SubnetCIDRLoop(fldPath, subnets, idxMap, networks, order) ==
    IF order = <<>> THEN <<>>
    ELSE LET id == Head(order)
             v == subnets[id]
             fp == Index(fldPath, IdxGet(idxMap, id))
             p == ParseCIDR(v.CIDR)
             e == IF p.err THEN <<Invalid(fp, StrVal(id), ParseErrMsg)>>
                  ELSE validateMachineNetworksContainIP(fp, networks, id, p.ip)
         IN e \o SubnetCIDRLoop(fldPath, subnets, idxMap, networks, Tail(order))

\* ord: the order in which the range statement visits the map.
validateSubnetCIDR(fldPath, subnets, idxMap, networks, ord) ==
    SubnetCIDRLoop(fldPath, subnets, idxMap, networks, MapRange(DOMAIN subnets, ord))

DupMsg(typ, conflictingSubnet, zone) ==
    Detail(IF typ = "private" THEN "private subnet %s is also in zone %s"
           ELSE "public subnet %s is also in zone %s",
           <<conflictingSubnet, zone>>)

\* The zone's entry is overwritten by every subnet seen in it.
RECURSIVE DuplicateZonesLoopLatest(_, _, _, _, _, _)
DuplicateZonesLoopLatest(fldPath, subnets, idxMap, typ, keys, zones) ==
    IF keys = <<>> THEN <<>>
    ELSE LET id == Head(keys)
             subnet == subnets[id]
             seen == [z \in DOMAIN zones \cup {subnet.Zone} |->
                         IF z = subnet.Zone THEN id ELSE zones[z]]
         IN (IF subnet.Zone \in DOMAIN zones
             THEN <<Invalid(Index(fldPath, IdxGet(idxMap, id)), StrVal(id),
                            DupMsg(typ, zones[subnet.Zone], subnet.Zone))>>
             ELSE <<>>)
            \o DuplicateZonesLoopLatest(fldPath, subnets, idxMap, typ, Tail(keys), seen)

\* zones: the map from a zone to the first subnet seen in it.
RECURSIVE DuplicateZonesLoop(_, _, _, _, _, _)
DuplicateZonesLoop(fldPath, subnets, idxMap, typ, keys, zones) ==
    IF keys = <<>> THEN <<>>
    ELSE LET id == Head(keys)
             subnet == subnets[id]
         IN IF subnet.Zone \in DOMAIN zones
            THEN <<Invalid(Index(fldPath, IdxGet(idxMap, id)), StrVal(id),
                           DupMsg(typ, zones[subnet.Zone], subnet.Zone))>>
                 \o DuplicateZonesLoop(fldPath, subnets, idxMap, typ, Tail(keys), zones)
            ELSE DuplicateZonesLoop(fldPath, subnets, idxMap, typ, Tail(keys),
                                    [z \in DOMAIN zones \cup {subnet.Zone} |->
                                        IF z = subnet.Zone THEN id ELSE zones[z]])

EmptyMap == [z \in {} |-> 0]

DuplicateZonesUnsorted(fldPath, subnets, idxMap, typ, ord) ==
    DuplicateZonesLoop(fldPath, subnets, idxMap, typ,
                       MapRange(DOMAIN subnets, ord), EmptyMap)

validateDuplicateSubnetZones(fldPath, subnets, idxMap, typ, ord) ==
    DuplicateZonesLoop(fldPath, subnets, idxMap, typ,
                       SortStrings(MapRange(DOMAIN subnets, ord)), EmptyMap)

ZonesOf(subnets) == {subnets[id].Zone : id \in DOMAIN subnets}

NoPrivateMsg == Detail("No private subnets found", <<>>)
NoPublicMsg(zoneList) == Detail("No public subnet provided for zones %s", zoneList)

CoverageReversed(fldPath, subnets, publish, privateZones, publicZones) ==
    IF publish = "External" /\ ~(publicZones \subseteq privateZones)
    THEN <<Invalid(fldPath, ListVal(subnets), NoPublicMsg(SortedList(publicZones \ privateZones)))>>
    ELSE <<>>

\* publish == External && !publicZones.IsSuperset(privateZones)
ZoneCoverage(fldPath, subnets, publish, privateZones, publicZones) ==
    IF publish = "External" /\ ~(privateZones \subseteq publicZones)
    THEN <<Invalid(fldPath, ListVal(subnets), NoPublicMsg(SortedList(privateZones \ publicZones)))>>
    ELSE <<>>

RequireTwoPrivateSubnets(fldPath, subnets, privateSubnets) ==
    IF Cardinality(DOMAIN privateSubnets) <= 1
    THEN <<Invalid(fldPath, ListVal(subnets), NoPrivateMsg)>>
    ELSE <<>>

\* if len(privateSubnets) == 0
RequirePrivateSubnet(fldPath, subnets, privateSubnets) ==
    IF DOMAIN privateSubnets = {}
    THEN <<Invalid(fldPath, ListVal(subnets), NoPrivateMsg)>>
    ELSE <<>>

\* fail: the lookups that fail if made now; ord: the map iteration order.
validateSubnets(m, fail, fldPath, subnets, networking, publish, ord) ==
    LET g1 == PrivateSubnets(m, fail)
    IN IF g1.err
       THEN [errs |-> <<Invalid(fldPath, ListVal(subnets), LookupErr("privateSubnets"))>>,
             meta |-> g1.meta]
       ELSE
         LET privateSubnets == g1.val
             privateSubnetsIdx == SubnetsIdx(subnets, privateSubnets)
             e1 == RequirePrivateSubnet(fldPath, subnets, privateSubnets)
             g2 == PublicSubnets(g1.meta, fail)
         IN IF g2.err
            THEN [errs |-> Append(e1, Invalid(fldPath, ListVal(subnets), LookupErr("publicSubnets"))),
                  meta |-> g2.meta]
            ELSE
              LET publicSubnets == g2.val
                  publicSubnetsIdx == SubnetsIdx(subnets, publicSubnets)
              IN [errs |->
                    e1
                    \o validateSubnetCIDR(fldPath, privateSubnets, privateSubnetsIdx, networking.MachineNetwork, ord)
                    \o validateSubnetCIDR(fldPath, publicSubnets, publicSubnetsIdx, networking.MachineNetwork, ord)
                    \o validateDuplicateSubnetZones(fldPath, privateSubnets, privateSubnetsIdx, "private", ord)
                    \o validateDuplicateSubnetZones(fldPath, publicSubnets, publicSubnetsIdx, "public", ord)
                    \o ZoneCoverage(fldPath, subnets, publish, ZonesOf(privateSubnets), ZonesOf(publicSubnets)),
                  meta |-> g2.meta]

----------------------------------------------------------------------------
(* The topology validator alone: validateSubnets on every declared subnet   *)
(* list and every live classification of the subnets.                       *)

PlatformPath == NewPath(<<"platform", "aws">>)
SubnetsPath == Child(PlatformPath, "subnets")

\* The CIDR strings of the live subnets: malformed, inside a machine network
\* and outside all of them.
SubnetCIDRs == {BadCIDR, CIDR(4, 2), CIDR(2, 2)}
MachineNetworkLists == {<<CIDR(0, 3), CIDR(4, 1)>>}

\* A live classification: each subnet is private, public or unknown to the account.
LiveSubnets ==
    {[id \in S |-> [Zone |-> zc[id][1], CIDR |-> zc[id][2]]] :
        S \in SUBSET SubnetIds, zc \in [SubnetIds -> Zones \X SubnetCIDRs]}

InitSubnets ==
    /\ cfg \in [subnets : DistinctSeqs(SubnetIds) \ {<<>>},
                networking : [MachineNetwork : MachineNetworkLists],
                publish : {"External", "Internal"}]
    /\ \E priv \in LiveSubnets, pub \in LiveSubnets :
          /\ DOMAIN priv \cap DOMAIN pub = {}
          \* the lookups are by the declared ids
          /\ DOMAIN priv \cup DOMAIN pub \subseteq Range(cfg.subnets)
          /\ live = [privateSubnets |-> priv, publicSubnets |-> pub,
                     availabilityZones |-> <<>>, instanceTypes |-> <<>>]
    /\ meta = NewMetadata
    /\ pc = "validateSubnets"
    /\ errs = <<>>
    /\ idx = 0 /\ out = <<>> /\ result = NoResult /\ run = 1 /\ first = NoFirst

ValidateSubnetsCall ==
    /\ pc = "validateSubnets"
    /\ \E fail \in SUBSET {"privateSubnets", "publicSubnets"} :
       \* the iteration order is read only when both lookups succeed
       \E ord \in IF fail = {} THEN Orders(SubnetIds) ELSE {SortedList(SubnetIds)} :
       \E r \in {validateSubnets(meta, fail, SubnetsPath, cfg.subnets,
                                 cfg.networking, cfg.publish, ord)} :
          /\ errs' = r.errs
          /\ meta' = r.meta
    /\ pc' = "done"
    /\ UNCHANGED <<cfg, live, validateVars>>

NextSubnets == ValidateSubnetsCall

SpecSubnets == InitSubnets /\ [][NextSubnets]_vars

----------------------------------------------------------------------------
(* Properties of validateSubnets, under SpecSubnets. *)

SubnetsReturned == pc = "done"
LookupOk(k) == meta.memo[k].state = "ok"
SubnetLookupsOk == LookupOk("privateSubnets") /\ LookupOk("publicSubnets")

LiveTier(typ) == IF typ = "private" THEN live.privateSubnets ELSE live.publicSubnets
AllLiveIds == DOMAIN live.privateSubnets \cup DOMAIN live.publicSubnets
LiveSubnet(id) ==
    IF id \in DOMAIN live.privateSubnets THEN live.privateSubnets[id]
    ELSE live.publicSubnets[id]

\* The whole range of the CIDR lies inside one machine network.
CIDRInside(s, networks) ==
    /\ s.ok
    /\ \E i \in DOMAIN networks : AddrsOf(ParseCIDR(s).net) \subseteq AddrsOf(networks[i])

ZonesDistinct(subnets) ==
    \A a, b \in DOMAIN subnets : a # b => subnets[a].Zone # subnets[b].Zone

ValidTopology ==
    /\ DOMAIN live.privateSubnets # {}
    /\ \A id \in AllLiveIds : CIDRInside(LiveSubnet(id).CIDR, cfg.networking.MachineNetwork)
    /\ ZonesDistinct(live.privateSubnets)
    /\ ZonesDistinct(live.publicSubnets)

PrivateZonesCovered == ZonesOf(live.privateSubnets) \subseteq ZonesOf(live.publicSubnets)

\* C1, as stated: for any publishing strategy, a topology with a private subnet,
\* every CIDR inside a machine network and distinct zones within each tier gets
\* no diagnostic from validateSubnets.
C1_ValidTopologyNoDiagnostics ==
    (SubnetsReturned /\ SubnetLookupsOk /\ ValidTopology) => errs = <<>>

\* C1, amended: the same, provided that with the external publishing strategy
\* every zone of a private subnet also has a public subnet.
C1_ValidCoveredTopologyNoDiagnostics ==
    (/\ SubnetsReturned /\ SubnetLookupsOk /\ ValidTopology
     /\ (cfg.publish = "External" => PrivateZonesCovered))
    => errs = <<>>

C1_Witness ==
    /\ SubnetsReturned /\ SubnetLookupsOk /\ ValidTopology
    /\ cfg.publish = "External" /\ PrivateZonesCovered
    /\ Cardinality(DOMAIN live.publicSubnets) = 2
    /\ errs = <<>>

DupDiags(typ) ==
    SelectSeq(errs, LAMBDA d : d.detail.msg = DupMsg(typ, 0, 0).msg)

\* The pairs of subnets of a tier that share a zone.
SharingPairs(subnets) ==
    {p \in SUBSET DOMAIN subnets :
        /\ Cardinality(p) = 2
        /\ \A a, b \in p : subnets[a].Zone = subnets[b].Zone}

Least(S) == CHOOSE x \in S : \A y \in S : x <= y
Greatest(S) == CHOOSE x \in S : \A y \in S : y <= x

\* C2: when exactly two subnets of a tier share a zone and the tier's other
\* zones are distinct, the tier gets exactly one duplicate-zone diagnostic; its
\* value is the greater id and its message names the smaller id and the zone,
\* whatever the order of the declared list and of the map iteration.
C2_OneDuplicateZoneDiagnostic ==
    \A typ \in {"private", "public"} :
        (/\ SubnetsReturned /\ SubnetLookupsOk
         /\ Cardinality(SharingPairs(LiveTier(typ))) = 1)
        => LET p == CHOOSE q \in SharingPairs(LiveTier(typ)) : TRUE
               dups == DupDiags(typ)
           IN /\ Len(dups) = 1
              /\ dups[1].value = StrVal(Greatest(p))
              /\ dups[1].detail.args = <<Least(p), LiveTier(typ)[Least(p)].Zone>>

\* The declared list names the greater id of the pair before the smaller one.
C2_Witness ==
    /\ SubnetsReturned /\ SubnetLookupsOk
    /\ Cardinality(DOMAIN live.privateSubnets) = 3
    /\ Cardinality(SharingPairs(live.privateSubnets)) = 1
    /\ LET p == CHOOSE q \in SharingPairs(live.privateSubnets) : TRUE
       IN \E i, j \in DOMAIN cfg.subnets :
             i < j /\ cfg.subnets[i] = Greatest(p) /\ cfg.subnets[j] = Least(p)
    /\ Len(DupDiags("private")) = 1

CoverageDiags ==
    SelectSeq(errs, LAMBDA d : d.detail.msg = NoPublicMsg(<<>>).msg)

\* C3: with the external strategy and a private zone without a public subnet,
\* exactly one coverage diagnostic is produced and it lists exactly the private
\* zones that have no public subnet; otherwise none is produced.
C3_ZoneCoverage ==
    (SubnetsReturned /\ SubnetLookupsOk)
    => IF cfg.publish = "External" /\ ~PrivateZonesCovered
       THEN /\ Len(CoverageDiags) = 1
            /\ CoverageDiags[1].field = SubnetsPath
            /\ CoverageDiags[1].detail.args =
                  SortedList(ZonesOf(live.privateSubnets) \ ZonesOf(live.publicSubnets))
       ELSE CoverageDiags = <<>>

\* Private zones {1, 2}, public zones {1}: the diagnostic names zone 2 only.
C3_Witness ==
    /\ SubnetsReturned /\ SubnetLookupsOk
    /\ cfg.publish = "External"
    /\ ZonesOf(live.privateSubnets) = {1, 2}
    /\ ZonesOf(live.publicSubnets) = {1}
    /\ Len(CoverageDiags) = 1
    /\ CoverageDiags[1].detail.args = <<2>>

\* A diagnostic that concerns the declared subnet at position i (from 1): its
\* value is the id or the whole declared list, or its field is subnets[i-1].
Concerns(d, i) ==
    \/ d.value = StrVal(cfg.subnets[i])
    \/ d.value = ListVal(cfg.subnets)
    \/ d.field = Index(SubnetsPath, i - 1)

\* C10: every declared subnet id that is in neither the live private set nor
\* the live public set produces a diagnostic.
C10_UnclassifiedSubnetReported ==
    (SubnetsReturned /\ SubnetLookupsOk)
    => \A i \in DOMAIN cfg.subnets :
          cfg.subnets[i] \notin AllLiveIds
          => \E k \in DOMAIN errs : Concerns(errs[k], i)

NoPrivateDiags == SelectSeq(errs, LAMBDA d : d.detail = NoPrivateMsg)

\* C19: when the private-subnet lookup returns no subnet, validateSubnets has
\* one 'No private subnets found' diagnostic, on the subnets field with the
\* declared subnets as its value, whatever the public subnets are and whether
\* or not their lookup succeeds; when it returns a subnet there is none.
C19_PrivateSubnetRequired ==
    (SubnetsReturned /\ LookupOk("privateSubnets")) =>
        IF DOMAIN live.privateSubnets = {}
        THEN /\ Len(NoPrivateDiags) = 1
             /\ NoPrivateDiags[1] = Invalid(SubnetsPath, ListVal(cfg.subnets), NoPrivateMsg)
        ELSE NoPrivateDiags = <<>>

\* No private subnet and two public subnets in distinct zones, with CIDRs
\* inside the machine networks: the diagnostic is the only one.
C19_Witness ==
    /\ SubnetsReturned
    /\ SubnetLookupsOk
    /\ DOMAIN live.privateSubnets = {}
    /\ Cardinality(DOMAIN live.publicSubnets) = 2
    /\ Len(errs) = 1
    /\ Len(NoPrivateDiags) = 1

\* The subnets of a tier that are not the one of the smallest id of their zone.
LaterInZone(subnets) ==
    {id \in DOMAIN subnets :
        \E other \in DOMAIN subnets : other < id /\ subnets[other].Zone = subnets[id].Zone}

SmallestInZone(subnets, zone) == Least({id \in DOMAIN subnets : subnets[id].Zone = zone})

DeclaredAt(id) == CHOOSE i \in DOMAIN cfg.subnets : cfg.subnets[i] = id

\* C28: each tier on its own gets one duplicate-zone diagnostic for every
\* subnet that is not the one of the smallest id in its zone (k - 1 for k
\* subnets in a zone), on that subnet's place in the declared list, naming
\* the smallest id of the zone and the zone; they come in ascending order of
\* subnet id.  A private and a public subnet in one zone give none.
C28_DuplicateZonesAllReported ==
    (SubnetsReturned /\ SubnetLookupsOk) =>
        \A typ \in {"private", "public"} :
            LET tier == LiveTier(typ)
                later == SortedList(LaterInZone(tier))
            IN DupDiags(typ) =
                  [i \in DOMAIN later |->
                      Invalid(Index(SubnetsPath, DeclaredAt(later[i]) - 1), StrVal(later[i]),
                              DupMsg(typ, SmallestInZone(tier, tier[later[i]].Zone),
                                     tier[later[i]].Zone))]

\* Three private subnets in one zone, declared in descending order: two
\* diagnostics, for the second and the third, both naming the first.
C28_Witness ==
    /\ SubnetsReturned /\ SubnetLookupsOk
    /\ cfg.subnets = <<3, 2, 1>>
    /\ DOMAIN live.privateSubnets = {1, 2, 3}
    /\ \A id \in {2, 3} : live.privateSubnets[id].Zone = live.privateSubnets[1].Zone
    /\ Len(DupDiags("private")) = 2
    /\ DupDiags("private")[1].value = StrVal(2)
    /\ DupDiags("private")[2].value = StrVal(3)
    /\ \A i \in 1..2 : DupDiags("private")[i].detail.args[1] = 1

----------------------------------------------------------------------------
(* The CIDR check alone: validateSubnetCIDR on every CIDR string, in       *)
(* canonical form or not, and every machine network.                        *)

CIDRSubnetIds == 1..2

\* Every CIDR string over the addresses: malformed, or any address with any
\* prefix length.
CIDRStrings == {BadCIDR} \cup {CIDR(ip, len) : ip \in Addrs, len \in 0..AddrBits}

\* The machine networks, their addresses with the host bits cleared.
Networks == {CIDR(MaskIP(ip, len), len) : ip \in Addrs, len \in 0..AddrBits}

NetworkLists == {<<n>> : n \in Networks} \cup MachineNetworkLists

InitCIDR ==
    /\ cfg \in [subnets : {<<1, 2>>}, networks : NetworkLists]
    /\ \E S \in SUBSET CIDRSubnetIds, c \in [CIDRSubnetIds -> CIDRStrings] :
          live = [subnets |-> [id \in S |-> [Zone |-> 1, CIDR |-> c[id]]]]
    /\ meta = NewMetadata
    /\ pc = "validateSubnetCIDR"
    /\ errs = <<>>
    /\ idx = 0 /\ out = <<>> /\ result = NoResult /\ run = 1 /\ first = NoFirst

ValidateSubnetCIDRCall ==
    /\ pc = "validateSubnetCIDR"
    /\ \E ord \in Orders(CIDRSubnetIds) :
          errs' = validateSubnetCIDR(SubnetsPath, live.subnets,
                                     SubnetsIdx(cfg.subnets, live.subnets), cfg.networks, ord)
    /\ pc' = "done"
    /\ UNCHANGED <<cfg, live, meta, validateVars>>

NextCIDR == ValidateSubnetCIDRCall

SpecCIDR == InitCIDR /\ [][NextCIDR]_vars

----------------------------------------------------------------------------
(* Properties of validateSubnetCIDR, under SpecCIDR. *)

CIDRReturned == pc = "done"

DiagsOf(id) == SelectSeq(errs, LAMBDA d : d.value = StrVal(id))

\* The address of the CIDR with the host bits cleared.
NetworkAddress(s) == MaskIP(s.ip, s.len)

InsideSomeNetwork(ip) == \E i \in DOMAIN cfg.networks : ip \in AddrsOf(cfg.networks[i])

\* C18: a subnet whose CIDR does not parse has one diagnostic, the parse
\* error; a subnet whose CIDR parses has one diagnostic, that of containment,
\* if and only if the network address of the CIDR is inside no machine network,
\* and none otherwise.
C18_NetworkAddressContained ==
    CIDRReturned =>
        \A id \in DOMAIN live.subnets :
            LET s == live.subnets[id].CIDR
            IN IF ~s.ok
               THEN Len(DiagsOf(id)) = 1 /\ DiagsOf(id)[1].detail = ParseErrMsg
               ELSE IF ~InsideSomeNetwork(NetworkAddress(s))
               THEN /\ Len(DiagsOf(id)) = 1
                    /\ DiagsOf(id)[1].detail.msg = OutsideMsg(0).msg
               ELSE DiagsOf(id) = <<>>

\* Every address of the CIDR's network is inside one and the same machine
\* network.
RangeInsideOneNetwork(s) ==
    \E i \in DOMAIN cfg.networks :
        \A a \in Addrs :
            MaskIP(a, s.len) = MaskIP(s.ip, s.len) => a \in AddrsOf(cfg.networks[i])

\* C29 as stated: a subnet without a CIDR diagnostic has its whole range
\* inside a single machine network.
C29_WholeRangeContained ==
    CIDRReturned =>
        \A id \in DOMAIN live.subnets :
            DiagsOf(id) = <<>> =>
                live.subnets[id].CIDR.ok /\ RangeInsideOneNetwork(live.subnets[id].CIDR)

\* C29: a subnet has no CIDR diagnostic if and only if its CIDR parses and
\* the address written in it is inside some machine network, however far the
\* subnet's range goes beyond that network.
C29_StartAddressContained ==
    CIDRReturned =>
        \A id \in DOMAIN live.subnets :
            LET s == live.subnets[id].CIDR
            IN DiagsOf(id) = <<>> <=> (s.ok /\ InsideSomeNetwork(s.ip))

\* A subnet of a shorter prefix than the only machine network, starting
\* inside it: no diagnostic.
C29_Witness ==
    /\ CIDRReturned
    /\ Len(cfg.networks) = 1
    /\ \E id \in DOMAIN live.subnets :
          LET s == live.subnets[id].CIDR
          IN /\ s.ok
             /\ s.len < cfg.networks[1].len
             /\ s.ip = MaskIP(s.ip, s.len)
             /\ InsideSomeNetwork(s.ip)
             /\ ~RangeInsideOneNetwork(s)
             /\ DiagsOf(id) = <<>>

----------------------------------------------------------------------------
(* validateMachinePool. *)

controlPlaneReq == [minimumVCpus |-> 4, minimumMemory |-> 16384]
computeReq == [minimumVCpus |-> 2, minimumMemory |-> 8192]

NoZonesMsg(zoneList) == Detail("No subnets provided for zones %s", zoneList)
VCpuMsg(n) == Detail("instance type does not meet minimum resource requirements of %d vCPUs", <<n>>)
MemoryMsg(n) == Detail("instance type does not meet minimum resource requirements of %d MiB Memory", <<n>>)
NotFoundMsg(t) == Detail("instance type %s not found", <<t>>)

ResourceChecksElseIf(fldPath, pool, typeMeta, req) ==
    IF typeMeta.DefaultVCpus < req.minimumVCpus
    THEN <<Invalid(Child(fldPath, "type"), StrVal(pool.InstanceType), VCpuMsg(req.minimumVCpus))>>
    ELSE IF typeMeta.MemInMiB < req.minimumMemory
    THEN <<Invalid(Child(fldPath, "type"), StrVal(pool.InstanceType), MemoryMsg(req.minimumMemory))>>
    ELSE <<>>

\* The two floors of an instance type found in the catalog.
ResourceChecks(fldPath, pool, typeMeta, req) ==
    (IF typeMeta.DefaultVCpus < req.minimumVCpus
     THEN <<Invalid(Child(fldPath, "type"), StrVal(pool.InstanceType), VCpuMsg(req.minimumVCpus))>>
     ELSE <<>>)
    \o
    (IF typeMeta.MemInMiB < req.minimumMemory
     THEN <<Invalid(Child(fldPath, "type"), StrVal(pool.InstanceType), MemoryMsg(req.minimumMemory))>>
     ELSE <<>>)

\* if pool.InstanceType != "" { ... }, after the zones were checked with
\* diagnostics zoneErrs; the empty instance type is 0.
InstanceTypeChecksSilent(m, fail, fldPath, pool, req, zoneErrs) ==
    IF pool.InstanceType = 0 THEN [errs |-> zoneErrs, meta |-> m]
    ELSE LET g == InstanceTypes(m, fail)
         IN IF g.err
            THEN [errs |-> zoneErrs, meta |-> g.meta]
            ELSE IF pool.InstanceType \in DOMAIN g.val
            THEN [errs |-> zoneErrs \o ResourceChecks(fldPath, pool, g.val[pool.InstanceType], req),
                  meta |-> g.meta]
            ELSE [errs |-> Append(zoneErrs, Invalid(Child(fldPath, "type"), StrVal(pool.InstanceType),
                                                    NotFoundMsg(pool.InstanceType))),
                  meta |-> g.meta]

InstanceTypeChecks(m, fail, fldPath, pool, req, zoneErrs) ==
    IF pool.InstanceType = 0 THEN [errs |-> zoneErrs, meta |-> m]
    ELSE LET g == InstanceTypes(m, fail)
         IN IF g.err
            THEN [errs |-> Append(zoneErrs, InternalError(fldPath, LookupErr("instanceTypes"))),
                  meta |-> g.meta]
            ELSE IF pool.InstanceType \in DOMAIN g.val
            THEN [errs |-> zoneErrs \o ResourceChecks(fldPath, pool, g.val[pool.InstanceType], req),
                  meta |-> g.meta]
            ELSE [errs |-> Append(zoneErrs, Invalid(Child(fldPath, "type"), StrVal(pool.InstanceType),
                                                    NotFoundMsg(pool.InstanceType))),
                  meta |-> g.meta]

ZonesDiffListsDeclared(fldPath, pool, availableZones) ==
    LET diff == Range(pool.Zones) \ availableZones
    IN IF diff # {}
       THEN <<Invalid(Child(fldPath, "zones"), ListVal(pool.Zones),
                      NoZonesMsg(SortedList(Range(pool.Zones))))>>
       ELSE <<>>

\* sets.NewString(pool.Zones...).Difference(availableZones)
ZonesDiff(fldPath, pool, availableZones) ==
    LET diff == Range(pool.Zones) \ availableZones
    IN IF diff # {}
       THEN <<Invalid(Child(fldPath, "zones"), ListVal(pool.Zones), NoZonesMsg(SortedList(diff)))>>
       ELSE <<>>

\* A failed zone lookup is recorded and the instance type is checked all the
\* same.
validateMachinePoolNoReturn(m, fail, fldPath, platform, pool, req) ==
    IF Len(pool.Zones) > 0
    THEN LET g == IF Len(platform.Subnets) > 0 THEN PrivateSubnets(m, fail)
                  ELSE AvailabilityZones(m, fail)
             key == IF Len(platform.Subnets) > 0 THEN "privateSubnets" ELSE "availabilityZones"
             zones == IF Len(platform.Subnets) > 0 THEN ZonesOf(g.val) ELSE Range(g.val)
         IN IF g.err
            THEN InstanceTypeChecks(g.meta, fail, fldPath, pool, req,
                                    <<InternalError(fldPath, LookupErr(key))>>)
            ELSE InstanceTypeChecks(g.meta, fail, fldPath, pool, req,
                                    ZonesDiff(fldPath, pool, zones))
    ELSE InstanceTypeChecks(m, fail, fldPath, pool, req, <<>>)

validateMachinePool(m, fail, fldPath, platform, pool, req) ==
    IF Len(pool.Zones) > 0
    THEN IF Len(platform.Subnets) > 0
         THEN LET g == PrivateSubnets(m, fail)
              IN IF g.err
                 THEN [errs |-> <<InternalError(fldPath, LookupErr("privateSubnets"))>>, meta |-> g.meta]
                 ELSE InstanceTypeChecks(g.meta, fail, fldPath, pool, req,
                                         ZonesDiff(fldPath, pool, ZonesOf(g.val)))
         ELSE LET g == AvailabilityZones(m, fail)
              IN IF g.err
                 THEN [errs |-> <<InternalError(fldPath, LookupErr("availabilityZones"))>>, meta |-> g.meta]
                 ELSE InstanceTypeChecks(g.meta, fail, fldPath, pool, req,
                                         ZonesDiff(fldPath, pool, Range(g.val)))
    ELSE InstanceTypeChecks(m, fail, fldPath, pool, req, <<>>)

----------------------------------------------------------------------------
(* The machine pool validator alone: validateMachinePool for every role, on *)
(* every pool and every instance-type catalog.                              *)

MaxTypes == 2
TypeNames == 1..MaxTypes

VCpuValues == {1, 2, 3, 4}
MemValues == {8191, 8192, 16383, 16384}

\* The catalog describes at most one of the type names.
Catalogs ==
    {[t \in S |-> [DefaultVCpus |-> vm[1], MemInMiB |-> vm[2]]] :
        S \in {T \in SUBSET TypeNames : Cardinality(T) <= 1},
        vm \in VCpuValues \X MemValues}

Roles == {"defaultMachinePlatform", "controlPlane", "compute"}

\* The path and the requirements Validate and validatePlatform pass for a pool.
PoolPath(role, i) ==
    CASE role = "defaultMachinePlatform" -> Child(PlatformPath, "defaultMachinePlatform")
      [] role = "controlPlane" -> NewPath(<<"controlPlane", "platform", "aws">>)
      [] role = "compute" -> Child(Child(Index(NewPath(<<"compute">>), i), "platform"), "aws")

PoolReqDefaultAsCompute(role) == IF role = "controlPlane" THEN controlPlaneReq ELSE computeReq

PoolReq(role) == IF role = "compute" THEN computeReq ELSE controlPlaneReq

MachinePools == [Zones : DistinctSeqs(Zones), InstanceType : {0} \cup TypeNames]

PoolSubnetIds == 1..2

InitPool ==
    /\ cfg \in [role : Roles,
                platform : [Subnets : {SortedList(S) : S \in SUBSET PoolSubnetIds}],
                pool : MachinePools]
    /\ \E zs \in [PoolSubnetIds -> Zones], S \in SUBSET PoolSubnetIds, az \in SUBSET Zones,
          cat \in Catalogs :
          /\ S \subseteq Range(cfg.platform.Subnets)
          /\ live = [privateSubnets |-> [id \in S |-> [Zone |-> zs[id], CIDR |-> CIDR(4, 2)]],
                     publicSubnets |-> EmptyMap,
                     availabilityZones |-> SortedList(az),
                     instanceTypes |-> cat]
    /\ meta = NewMetadata
    /\ pc = "validateMachinePool"
    /\ errs = <<>>
    /\ idx = 0 /\ out = <<>> /\ result = NoResult /\ run = 1 /\ first = NoFirst

ValidateMachinePoolCall ==
    /\ pc = "validateMachinePool"
    /\ \E fail \in SUBSET {"privateSubnets", "availabilityZones", "instanceTypes"} :
       \E r \in {validateMachinePool(meta, fail, PoolPath(cfg.role, 0), cfg.platform,
                                     cfg.pool, PoolReq(cfg.role))} :
          /\ errs' = r.errs
          /\ meta' = r.meta
    /\ pc' = "done"
    /\ UNCHANGED <<cfg, live, validateVars>>

NextPool == ValidateMachinePoolCall

SpecPool == InitPool /\ [][NextPool]_vars

----------------------------------------------------------------------------
(* Properties of validateMachinePool, under SpecPool. *)

PoolReturned == pc = "done"

TypeDiags == SelectSeq(errs, LAMBDA d : d.field = Child(PoolPath(cfg.role, 0), "type"))
VCpuDiags == SelectSeq(errs, LAMBDA d : d.detail.msg = VCpuMsg(0).msg)
MemoryDiags == SelectSeq(errs, LAMBDA d : d.detail.msg = MemoryMsg(0).msg)

DeclaredTypeInCatalog ==
    /\ cfg.pool.InstanceType # 0
    /\ LookupOk("instanceTypes")
    /\ cfg.pool.InstanceType \in DOMAIN live.instanceTypes

BelowVCpus == live.instanceTypes[cfg.pool.InstanceType].DefaultVCpus < PoolReq(cfg.role).minimumVCpus
BelowMemory == live.instanceTypes[cfg.pool.InstanceType].MemInMiB < PoolReq(cfg.role).minimumMemory

\* C4: for a declared instance type found in the catalog the vCPU floor and
\* the memory floor are checked independently: there is one vCPU diagnostic
\* iff the type is below the vCPU minimum, one memory diagnostic iff it is
\* below the memory minimum, both on the pool's type field and nothing else
\* on that field (two, one or no diagnostics).
C4_IndependentFloors ==
    (PoolReturned /\ DeclaredTypeInCatalog)
    => /\ Len(VCpuDiags) = (IF BelowVCpus THEN 1 ELSE 0)
       /\ Len(MemoryDiags) = (IF BelowMemory THEN 1 ELSE 0)
       /\ Len(TypeDiags) = Len(VCpuDiags) + Len(MemoryDiags)
       /\ \A i \in DOMAIN errs :
             errs[i].detail.msg \in {VCpuMsg(0).msg, MemoryMsg(0).msg}
             => /\ errs[i].field = Child(PoolPath(cfg.role, 0), "type")
                /\ errs[i].value = StrVal(cfg.pool.InstanceType)

\* A control-plane type below both minimums: two diagnostics on the type field.
C4_Witness ==
    /\ PoolReturned /\ DeclaredTypeInCatalog
    /\ cfg.role = "controlPlane"
    /\ BelowVCpus /\ BelowMemory
    /\ Len(TypeDiags) = 2

\* The lookup that gives the pool its available zones, and the other one.
PoolZoneKey == IF Len(cfg.platform.Subnets) > 0 THEN "privateSubnets" ELSE "availabilityZones"
PoolOtherZoneKey == IF Len(cfg.platform.Subnets) > 0 THEN "availabilityZones" ELSE "privateSubnets"

AvailableZones ==
    IF Len(cfg.platform.Subnets) > 0
    THEN {live.privateSubnets[id].Zone : id \in DOMAIN live.privateSubnets}
    ELSE Range(live.availabilityZones)

AbsentZones == Range(cfg.pool.Zones) \ AvailableZones

PoolZoneDiags == SelectSeq(errs, LAMBDA d : d.field = Child(PoolPath(cfg.role, 0), "zones"))

\* C17: a pool that declares zones has them compared with the zones of the
\* live private subnets if the platform declares a subnet, with the live
\* availability zones otherwise; there is one diagnostic on the pool's zones
\* field iff a declared zone is absent from that set, and it lists the absent
\* zones, all and only.  A pool that declares no zone makes no zone lookup and
\* has no zone diagnostic.
C17_PoolZonesAvailable ==
    PoolReturned =>
        /\ meta.calls[PoolOtherZoneKey] = 0
        /\ IF Len(cfg.pool.Zones) = 0
           THEN meta.calls[PoolZoneKey] = 0 /\ PoolZoneDiags = <<>>
           ELSE /\ meta.calls[PoolZoneKey] = 1
                /\ LookupOk(PoolZoneKey) =>
                      IF AbsentZones # {}
                      THEN /\ Len(PoolZoneDiags) = 1
                           /\ PoolZoneDiags[1].value = ListVal(cfg.pool.Zones)
                           /\ PoolZoneDiags[1].detail = NoZonesMsg(SortedList(AbsentZones))
                      ELSE PoolZoneDiags = <<>>

\* A pool declares two zones on a platform with subnets; the private subnets
\* are in one of them, and the diagnostic lists the other.
C17_Witness ==
    /\ PoolReturned
    /\ Len(cfg.pool.Zones) = 2
    /\ Len(cfg.platform.Subnets) > 0
    /\ Cardinality(AbsentZones) = 1
    /\ Len(PoolZoneDiags) = 1

\* C25: the control-plane pool and the default machine platform are held to
\* 4 vCPUs and 16384 MiB, a compute pool to 2 vCPUs and 8192 MiB; a declared
\* type found in the catalog has the vCPU diagnostic, which names the minimum
\* of the pool's role, exactly when its vCPUs are strictly below that
\* minimum, and likewise for memory; a type at the minimum has none.
C25_RoleSpecificMinimum ==
    (PoolReturned /\ DeclaredTypeInCatalog) =>
        LET typeMeta == live.instanceTypes[cfg.pool.InstanceType]
            minVCpus == IF cfg.role = "compute" THEN 2 ELSE 4
            minMemory == IF cfg.role = "compute" THEN 8192 ELSE 16384
            typePath == Child(PoolPath(cfg.role, 0), "type")
        IN /\ VCpuDiags =
                 IF typeMeta.DefaultVCpus < minVCpus
                 THEN <<Invalid(typePath, StrVal(cfg.pool.InstanceType), VCpuMsg(minVCpus))>>
                 ELSE <<>>
           /\ MemoryDiags =
                 IF typeMeta.MemInMiB < minMemory
                 THEN <<Invalid(typePath, StrVal(cfg.pool.InstanceType), MemoryMsg(minMemory))>>
                 ELSE <<>>

\* The default machine platform's type has exactly 4 vCPUs and 16383 MiB: no
\* vCPU diagnostic, and the memory diagnostic of the control-plane minimum.
C25_Witness ==
    /\ PoolReturned
    /\ DeclaredTypeInCatalog
    /\ cfg.role = "defaultMachinePlatform"
    /\ live.instanceTypes[cfg.pool.InstanceType] = [DefaultVCpus |-> 4, MemInMiB |-> 16383]
    /\ VCpuDiags = <<>>
    /\ Len(MemoryDiags) = 1
    /\ MemoryDiags[1].detail = MemoryMsg(16384)

PoolLookupFailed(k) == meta.memo[k].state = "err"

\* C30: when the zone lookup of a pool fails (private subnets with declared
\* subnets, availability zones without), the pool's result is one internal
\* error on the pool's path and no instance-type lookup was made; when the
\* instance-type lookup fails, the result is the zone diagnostic, if there is
\* one, followed by one internal error on the pool's path.
C30_PoolLookupFailure ==
    PoolReturned =>
        /\ PoolLookupFailed(PoolZoneKey) =>
              /\ errs = <<InternalError(PoolPath(cfg.role, 0), LookupErr(PoolZoneKey))>>
              /\ meta.calls["instanceTypes"] = 0
              /\ meta.remote["instanceTypes"] = 0
        /\ PoolLookupFailed("instanceTypes") =>
              /\ ~PoolLookupFailed(PoolZoneKey)
              /\ Len(PoolZoneDiags) = IF AbsentZones # {} THEN 1 ELSE 0
              /\ errs = PoolZoneDiags
                          \o <<InternalError(PoolPath(cfg.role, 0), LookupErr("instanceTypes"))>>

\* A pool with a zone that has no subnet and an instance type: the zone lookup
\* succeeds, the instance-type lookup fails, and the result is the two
\* diagnostics in that order.
C30_Witness ==
    /\ PoolReturned
    /\ LookupOk(PoolZoneKey)
    /\ AbsentZones # {}
    /\ PoolLookupFailed("instanceTypes")
    /\ Len(errs) = 2
    /\ errs[1].field = Child(PoolPath(cfg.role, 0), "zones")
    /\ errs[2].type = "Internal error"

----------------------------------------------------------------------------
(* validateZoneRecords and getSubDomainDNSRecords.  A domain name is the    *)
(* sequence of its characters.                                               *)

HasSuffix(str, suffix) ==
    /\ Len(str) >= Len(suffix)
    /\ SubSeq(str, Len(str) - Len(suffix) + 1, Len(str)) = suffix

NilPath == <<>>

isHostedZoneDomainCharSuffix(hostedZone, dottedClusterDomain) ==
    \/ hostedZone.Name = dottedClusterDomain
    \/ HasSuffix(dottedClusterDomain, hostedZone.Name)

\* *hostedZone.Name == dottedClusterDomain || HasSuffix(dottedClusterDomain, "."+*hostedZone.Name)
isHostedZoneDomainParentOfClusterDomain(hostedZone, dottedClusterDomain) ==
    \/ hostedZone.Name = dottedClusterDomain
    \/ HasSuffix(dottedClusterDomain, <<".">> \o hostedZone.Name)

\* fmt.Sprintf("%s (%s)", name, type)
FormatRecord(recordSet) == [name |-> recordSet.Name, type |-> recordSet.Type]

\* The callback's loop over the record sets of one page.
RECURSIVE ScanPage(_, _)
ScanPage(recordSets, dottedClusterDomain) ==
    IF recordSets = <<>> THEN <<>>
    ELSE LET name == Head(recordSets).Name
             rest == ScanPage(Tail(recordSets), dottedClusterDomain)
         IN IF ~HasSuffix(name, dottedClusterDomain) THEN rest
            ELSE IF Len(name) = Len(dottedClusterDomain) THEN rest
            ELSE <<FormatRecord(Head(recordSets))>> \o rest

\* ListResourceRecordSetsPages: the callback is called on page i with
\* lastPage = (i is the last page) and the scan goes on while it returns true.
\* found: the problematic records; calls: how many pages the callback saw.
ScanFirstPageOnly(pages, i, dottedClusterDomain) ==
    [found |-> ScanPage(pages[i], dottedClusterDomain), calls |-> 1]

RECURSIVE ScanPages(_, _, _)
ScanPages(pages, i, dottedClusterDomain) ==
    LET lastPage == i = Len(pages)
        found == ScanPage(pages[i], dottedClusterDomain)
        continue == ~lastPage
    IN IF continue /\ i < Len(pages)
       THEN LET rest == ScanPages(pages, i + 1, dottedClusterDomain)
            IN [found |-> found \o rest.found, calls |-> 1 + rest.calls]
       ELSE [found |-> found, calls |-> 1]

NotParentErr(zoneName, dottedClusterDomain) ==
    Detail("hosted zone domain %q is not a parent of the cluster domain %q",
           <<zoneName, dottedClusterDomain>>)
ListErr == Detail("listing record sets failed", <<>>)

\* fail: the remote calls that fail if made now.
getSubDomainDNSRecords(fail, hostedZone, ic) ==
    LET dottedClusterDomain == ic.clusterDomain \o <<".">>
    IN IF ~isHostedZoneDomainParentOfClusterDomain(hostedZone, dottedClusterDomain)
       THEN [records |-> <<>>, failed |-> TRUE,
             err |-> NotParentErr(hostedZone.Name, dottedClusterDomain),
             listed |-> FALSE, calls |-> 0]
       ELSE IF "records" \in fail
       THEN [records |-> <<>>, failed |-> TRUE, err |-> ListErr, listed |-> TRUE, calls |-> 0]
       ELSE LET scan == ScanPages(live.pages, 1, dottedClusterDomain)
            IN [records |-> scan.found, failed |-> FALSE, err |-> Detail("", <<>>),
                listed |-> TRUE, calls |-> scan.calls]

CollisionMsg(records) ==
    Detail("the zone already has record sets for the domain of the cluster: [%s]", records)
CouldNotListMsg(zoneName, err) ==
    Detail("could not list record sets for domain %q", <<zoneName, err>>)

validateZoneRecords(fail, zone, zoneName, zonePath, ic) ==
    LET r == getSubDomainDNSRecords(fail, zone, ic)
    IN (IF r.failed
        THEN <<InternalError(zonePath, CouldNotListMsg(zoneName, r.err))>>
        ELSE <<>>)
       \o
       (IF Len(r.records) > 0
        THEN <<Invalid(zonePath, StrVal(zoneName), CollisionMsg(r.records))>>
        ELSE <<>>)

----------------------------------------------------------------------------
(* The record scan alone: validateZoneRecords on every zone content.        *)

MaxNameLen == 6
MaxLabelLen == 2
MaxRecords == 2
MaxPages == 2

Alphabet == {"a", "b", "."}

\* A fully qualified name: labels of 1 to MaxLabelLen letters, each followed
\* by a dot.
IsFQDN(str) ==
    /\ str[Len(str)] = "."
    /\ str[1] # "."
    /\ \A i \in 1..(Len(str) - 1) : ~(str[i] = "." /\ str[i + 1] = ".")
    /\ \A i \in 1..(Len(str) - MaxLabelLen) :
          \E j \in i..(i + MaxLabelLen) : str[j] = "."

DomainNames ==
    {str \in UNION {[1..n -> Alphabet] : n \in 2..MaxNameLen} : IsFQDN(str)}

ClusterDomains == {<<"b", ".", "a">>, <<"a", "b", ".", "a">>}
ZoneNames == {<<"a", ".">>, <<"b", ".", "a", ".">>, <<"b", ".">>}
RecordTypes == {"A", "NS"}

RecordSets == [Name : DomainNames, Type : RecordTypes]

RECURSIVE Flatten(_)
Flatten(pages) == IF pages = <<>> THEN <<>> ELSE Head(pages) \o Flatten(Tail(pages))

RecordLists == UNION {[1..n -> RecordSets] : n \in 0..MaxRecords}

\* The ways to cut a list of records into n pages (a page may be empty).
RECURSIVE Cuts(_, _)
Cuts(records, n) ==
    IF n = 1 THEN {<<records>>}
    ELSE UNION {{<<SubSeq(records, 1, k)>> \o rest :
                    rest \in Cuts(SubSeq(records, k + 1, Len(records)), n - 1)} :
                k \in 0..Len(records)}

InitRecords ==
    /\ cfg \in [clusterDomain : ClusterDomains,
                zoneName : {<<"a">>},
                zonePath : {NewPath(<<"baseDomain">>)}]
    /\ \E zn \in ZoneNames, records \in RecordLists :
       \E n \in 1..MaxPages : \E pages \in Cuts(records, n) :
          live = [zone |-> [Name |-> zn], pages |-> pages]
    /\ meta = NewMetadata
    /\ pc = "validateZoneRecords"
    /\ errs = <<>>
    /\ idx = 0 /\ out = <<>> /\ result = NoResult /\ run = 1 /\ first = NoFirst

\* The ListResourceRecordSetsPages calls made, each with the number of pages
\* its callback was given.
RecordListings(fail, hostedZone, ic) ==
    LET r == getSubDomainDNSRecords(fail, hostedZone, ic)
    IN IF r.listed
       THEN <<[op |-> "ListResourceRecordSetsPages", failed |-> r.failed, calls |-> r.calls]>>
       ELSE <<>>

ValidateZoneRecordsCall ==
    /\ pc = "validateZoneRecords"
    /\ \E fail \in SUBSET {"records"} :
          /\ errs' = validateZoneRecords(fail, live.zone, cfg.zoneName, cfg.zonePath, cfg)
          /\ out' = RecordListings(fail, live.zone, cfg)
    /\ pc' = "done"
    /\ UNCHANGED <<cfg, live, meta, idx, result, run, first>>

NextRecords == ValidateZoneRecordsCall

SpecRecords == InitRecords /\ [][NextRecords]_vars

----------------------------------------------------------------------------
(* Properties of the record scan, under SpecRecords. *)

RecordsReturned == pc = "done"

DottedClusterDomain == cfg.clusterDomain \o <<".">>

CollisionDiags == SelectSeq(errs, LAMBDA d : d.detail.msg = CollisionMsg(<<>>).msg)
CouldNotListDiags == SelectSeq(errs, LAMBDA d : d.detail.msg = CouldNotListMsg(<<>>, <<>>).msg)

\* The records the result reports as problematic.
Reported == UNION {Range(CollisionDiags[i].detail.args) : i \in DOMAIN CollisionDiags}

\* One or more labels, a dot, and the domain.
StrictSubDomain(name, domain) ==
    \E k \in 2..(Len(name) - 1) :
        /\ name[k] = "."
        /\ SubSeq(name, k + 1, Len(name)) = domain

\* C5: a record set is reported if and only if its name is a strict sub-domain
\* of the dotted cluster domain (one or more labels, a dot, the cluster
\* domain); a record at the cluster domain, or one that is no sub-domain of it
\* at a label boundary, is not reported.
C5_ReportedIffStrictSubDomain ==
    (RecordsReturned /\ CouldNotListDiags = <<>>)
    => \A rs \in Range(Flatten(live.pages)) :
          FormatRecord(rs) \in Reported <=> StrictSubDomain(rs.Name, DottedClusterDomain)

\* The zone's name is the dotted cluster domain, or the dotted cluster domain
\* is some characters, a dot, and the zone's name.
ZoneAccepted ==
    LET d == DottedClusterDomain
        n == live.zone.Name
    IN \/ n = d
       \/ /\ Len(d) > Len(n)
          /\ d[Len(d) - Len(n)] = "."
          /\ \A i \in 1..Len(n) : d[Len(d) - Len(n) + i] = n[i]

NotParentDiags ==
    SelectSeq(errs, LAMBDA e : e.type = "Internal error" /\ Len(e.detail.args) = 2
                               /\ e.detail.args[2].msg = NotParentErr(<<>>, <<>>).msg)

\* C21: the zone is accepted if and only if its name is the dotted cluster
\* domain or the dotted cluster domain ends with a dot followed by the zone's
\* name.  An accepted zone has its record sets listed and no 'not a parent'
\* failure; a zone that is not accepted has no record set listed, and the
\* result is one internal error on the zone's path that names the zone and
\* the dotted cluster domain.
C21_ZoneAncestry ==
    RecordsReturned =>
        IF ZoneAccepted
        THEN /\ Len(out) = 1
             /\ NotParentDiags = <<>>
        ELSE /\ out = <<>>
             /\ errs = <<InternalError(cfg.zonePath,
                            CouldNotListMsg(cfg.zoneName,
                                NotParentErr(live.zone.Name, DottedClusterDomain)))>>

\* The zone b.a. is a suffix of ab.a. in characters but no ancestor of it, and
\* holds a record at the cluster domain: nothing is listed.
C21_Witness ==
    /\ RecordsReturned
    /\ ~ZoneAccepted
    /\ HasSuffix(DottedClusterDomain, live.zone.Name)
    /\ \E rs \in Range(Flatten(live.pages)) : rs.Name = DottedClusterDomain
    /\ out = <<>>
    /\ Len(errs) = 1

\* What the callback makes of one record set on its own.
IsProblematic(rs) == ScanPage(<<rs>>, DottedClusterDomain) # <<>>

\* The problematic records in the order the pages and records were returned.
ProblematicInOrder ==
    LET all == SelectSeq(Flatten(live.pages), IsProblematic)
    IN [i \in DOMAIN all |-> FormatRecord(all[i])]

\* C22: a listing that does not fail gives the callback every page of the
\* zone; the problematic records of all pages are reported in one diagnostic
\* on the zone's path, each with its name and type, in the order the pages
\* and records were returned, and a zone without a problematic record gets no
\* diagnostic.
C22_AllPagesOneDiagnostic ==
    (RecordsReturned /\ ZoneAccepted /\ CouldNotListDiags = <<>>) =>
        /\ Len(out) = 1
        /\ out[1].calls = Len(live.pages)
        /\ IF ProblematicInOrder = <<>>
           THEN errs = <<>>
           ELSE errs = <<Invalid(cfg.zonePath, StrVal(cfg.zoneName),
                                 CollisionMsg(ProblematicInOrder))>>

\* Two pages with one problematic record each, the two different.
C22_Witness ==
    /\ RecordsReturned
    /\ Len(live.pages) = 2
    /\ Len(live.pages[1]) = 1 /\ Len(live.pages[2]) = 1
    /\ live.pages[1][1] # live.pages[2][1]
    /\ Len(ProblematicInOrder) = 2
    /\ Len(errs) = 1
    /\ errs[1].detail.args = <<FormatRecord(live.pages[1][1]), FormatRecord(live.pages[2][1])>>

----------------------------------------------------------------------------
(* validateAMI. *)

\* A machine pool platform that is nil.
NilPool == [isNil |-> TRUE, Zones |-> <<>>, InstanceType |-> 0, AMIID |-> 0]

AMIRequiredMsg == Detail("AMI must be provided", <<>>)

computesAllHaveAMISpecified(compute) ==
    \A i \in DOMAIN compute :
        ~compute[i].PlatformAWS.isNil /\ compute[i].PlatformAWS.AMIID # 0

\* The compute pools with replicas all declare an AMI; Replicas is -1 for nil.
computesHaveAMISpecified(compute) ==
    \A i \in DOMAIN compute :
        \/ compute[i].Replicas = 0
        \/ ~compute[i].PlatformAWS.isNil /\ compute[i].PlatformAWS.AMIID # 0

validateAMI(config) ==
    IF config.platform.Region.rhcosAMI THEN <<>>
    ELSE IF config.platform.AMIID # 0 THEN <<>>
    ELSE IF /\ ~config.platform.DefaultMachinePlatform.isNil
            /\ config.platform.DefaultMachinePlatform.AMIID # 0 THEN <<>>
    ELSE IF /\ ~config.controlPlane.PlatformAWS.isNil
            /\ config.controlPlane.PlatformAWS.AMIID # 0
            /\ computesHaveAMISpecified(config.compute) THEN <<>>
    ELSE IF config.platform.Region.partition = "aws" THEN <<>>
    ELSE <<Required(Child(PlatformPath, "amiID"), AMIRequiredMsg)>>

----------------------------------------------------------------------------
(* validateServiceEndpoints. *)

requiredServices == <<"ec2", "elasticloadbalancing", "iam", "route53", "s3", "sts", "tagging">>

NoErr == [err |-> FALSE, msg |-> Detail("", <<>>)]

\* A URL is a record of what url.Parse finds in it; port 0 is no port.
validateEndpointAccessibility(endpointURL) ==
    IF endpointURL.e2e THEN NoErr
    ELSE IF ~endpointURL.parses THEN [err |-> TRUE, msg |-> Detail("parse error", <<>>)]
    ELSE LET port == IF endpointURL.port = 0 THEN 443 ELSE endpointURL.port
         IN IF <<endpointURL.host, port>> \in live.reachable THEN NoErr
            ELSE [err |-> TRUE, msg |-> Detail("dial error", <<>>)]

\* ec2.New(ses).Endpoint: the default EC2 endpoint of the region.
DefaultEC2Endpoint(region) ==
    [id |-> 0, e2e |-> FALSE, parses |-> TRUE, scheme |-> "https", host |-> region.ec2Host, port |-> 0]

validateRegion(region) ==
    IF ~live.sessionOk THEN [err |-> TRUE, msg |-> Detail("session error", <<>>)]
    ELSE validateEndpointAccessibility(DefaultEC2Endpoint(region))

RECURSIVE EndpointsLoop(_, _, _)
EndpointsLoop(fldPath, services, id) ==
    IF id > Len(services) THEN <<>>
    ELSE LET e == validateEndpointAccessibility(services[id].URL)
         IN (IF e.err
             THEN <<Invalid(Child(Index(fldPath, id - 1), "url"), StrVal(services[id].URL.id), e.msg)>>
             ELSE <<>>)
            \o EndpointsLoop(fldPath, services, id + 1)

HasEC2Override(services) == \E i \in DOMAIN services : services[i].Name = "ec2"

\* ec2Endpoint != "": an accessible override of the ec2 service was declared.
HasEC2Endpoint(services) ==
    \E i \in DOMAIN services :
        /\ services[i].Name = "ec2"
        /\ ~validateEndpointAccessibility(services[i].URL).err

\* resolver.EndpointFor(service, region, StrictMatchingOption) for a region of
\* no default partition: an override of the service, if one was declared.
EndpointFor(services, service) == \E i \in DOMAIN services : services[i].Name = service

FirstUnresolvedService(services) ==
    LET all == SelectSeq([i \in DOMAIN requiredServices |-> i],
                         LAMBDA i : ~EndpointFor(services, requiredServices[i]))
    IN IF all = <<>> THEN <<>> ELSE <<Head(all)>>

UnresolvedServices(services) ==
    SelectSeq([i \in DOMAIN requiredServices |-> i],
              LAMBDA i : ~EndpointFor(services, requiredServices[i]))

\* One diagnostic for each service that does not resolve.
validateServiceEndpointsPerService(fldPath, region, services) ==
    LET allErrs == EndpointsLoop(fldPath, services, 1)
        value == ListVal([i \in DOMAIN services |-> services[i].URL.id])
        errors == UnresolvedServices(services)
    IN IF region.partition # ""
       THEN IF ~region.listed /\ ~HasEC2Endpoint(services) /\ validateRegion(region).err
            THEN Append(allErrs, Invalid(Child(fldPath, "region"), StrVal(region.id),
                                         validateRegion(region).msg))
            ELSE allErrs
       ELSE allErrs \o
            [i \in DOMAIN errors |->
                Invalid(fldPath, value,
                        Detail("failed to find endpoint for service %q", <<errors[i]>>))]

validateServiceEndpoints(fldPath, region, services) ==
    LET allErrs == EndpointsLoop(fldPath, services, 1)
    IN IF region.partition # ""
       THEN IF ~region.listed /\ ~HasEC2Endpoint(services)
            THEN LET e == validateRegion(region)
                 IN IF e.err
                    THEN Append(allErrs, Invalid(Child(fldPath, "region"), StrVal(region.id), e.msg))
                    ELSE allErrs
            ELSE allErrs
       ELSE LET errors == UnresolvedServices(services)
            IN IF errors # <<>>
               THEN Append(allErrs,
                           Invalid(fldPath, ListVal([i \in DOMAIN services |-> services[i].URL.id]),
                                   Detail("failed to find endpoint for service %q", errors)))
               ELSE allErrs

----------------------------------------------------------------------------
(* validatePlatform and Validate. *)

\* The lookups validateMachinePool makes.
PoolKeys == {"privateSubnets", "availabilityZones", "instanceTypes"}

\* The subnet ids the configurations of Validate declare.
ValidateSubnetIds == 1..2

\* index is the pool's index in compute, -1 for any other validator.
Entry(validator, index, e) == [validator |-> validator, index |-> index, errs |-> e]

\* allErrs = append(allErrs, errs...)
PrependErrs(allErrs, newErrs) == newErrs \o allErrs
AppendErrs(allErrs, newErrs) == allErrs \o newErrs

validatePlatformNoFailFast(m, fail, ord, fldPath, platform, networking, publish) ==
    LET se == validateServiceEndpoints(Child(fldPath, "serviceEndpoints"), platform.Region,
                                       platform.ServiceEndpoints)
        e0 == <<Entry("serviceEndpoints", -1, se)>>
    IN IF FALSE THEN [errs |-> se, meta |-> m, calls |-> e0]
       ELSE
         LET r1 == IF Len(platform.Subnets) > 0
                   THEN validateSubnets(m, fail, Child(fldPath, "subnets"), platform.Subnets,
                                        networking, publish, ord)
                   ELSE [errs |-> <<>>, meta |-> m]
             e1 == IF Len(platform.Subnets) > 0 THEN <<Entry("subnets", -1, r1.errs)>> ELSE <<>>
             dmp == platform.DefaultMachinePlatform
             r2 == IF ~dmp.isNil
                   THEN validateMachinePool(r1.meta, fail, Child(fldPath, "defaultMachinePlatform"),
                                            platform, dmp, controlPlaneReq)
                   ELSE [errs |-> <<>>, meta |-> r1.meta]
             e2 == IF ~dmp.isNil THEN <<Entry("defaultMachinePlatform", -1, r2.errs)>> ELSE <<>>
         IN [errs |-> AppendErrs(AppendErrs(se, r1.errs), r2.errs),
             meta |-> r2.meta,
             calls |-> e0 \o e1 \o e2]

\* calls: the validators called, with what each returned, in call order.
validatePlatform(m, fail, ord, fldPath, platform, networking, publish) ==
    LET se == validateServiceEndpoints(Child(fldPath, "serviceEndpoints"), platform.Region,
                                       platform.ServiceEndpoints)
        e0 == <<Entry("serviceEndpoints", -1, se)>>
    IN IF Len(se) > 0 THEN [errs |-> se, meta |-> m, calls |-> e0]
       ELSE
         LET r1 == IF Len(platform.Subnets) > 0
                   THEN validateSubnets(m, fail, Child(fldPath, "subnets"), platform.Subnets,
                                        networking, publish, ord)
                   ELSE [errs |-> <<>>, meta |-> m]
             e1 == IF Len(platform.Subnets) > 0 THEN <<Entry("subnets", -1, r1.errs)>> ELSE <<>>
             dmp == platform.DefaultMachinePlatform
             r2 == IF ~dmp.isNil
                   THEN validateMachinePool(r1.meta, fail, Child(fldPath, "defaultMachinePlatform"),
                                            platform, dmp, controlPlaneReq)
                   ELSE [errs |-> <<>>, meta |-> r1.meta]
             e2 == IF ~dmp.isNil THEN <<Entry("defaultMachinePlatform", -1, r2.errs)>> ELSE <<>>
         IN [errs |-> AppendErrs(AppendErrs(se, r1.errs), r2.errs),
             meta |-> r2.meta,
             calls |-> e0 \o e1 \o e2]

RECURSIVE Dedup(_, _)
Dedup(list, seen) ==
    IF list = <<>> THEN <<>>
    ELSE IF Head(list) \in seen THEN Dedup(Tail(list), seen)
    ELSE <<Head(list)>> \o Dedup(Tail(list), seen \cup {Head(list)})

ToAggregateNeverNil(list) == [returned |-> TRUE, nil |-> FALSE, errs |-> Dedup(list, {})]

\* field.ErrorList.ToAggregate: nil for an empty list; an error of an equal
\* message is kept once.
ToAggregate(list) ==
    IF Len(list) = 0 THEN [returned |-> TRUE, nil |-> TRUE, errs |-> <<>>]
    ELSE [returned |-> TRUE, nil |-> FALSE, errs |-> Dedup(list, {})]

PlatformRequiredMsg == Detail("AWS validation requires an AWS platform configuration", <<>>)

\* if config.Platform.AWS == nil { return errors.New(field.Required(...).Error()) }
CheckPlatform ==
    /\ pc = "Validate"
    /\ IF cfg.platformNil
       THEN /\ result' = [returned |-> TRUE, nil |-> FALSE,
                          errs |-> <<Required(PlatformPath, PlatformRequiredMsg)>>]
            /\ pc' = "done"
       ELSE /\ pc' = "validateAMI"
            /\ UNCHANGED result
    /\ UNCHANGED <<cfg, live, meta, errs, idx, out, run, first>>

ValidateAMICall ==
    /\ pc = "validateAMI"
    /\ \E e \in {validateAMI(cfg)} :
          /\ errs' = AppendErrs(errs, e)
          /\ out' = Append(out, Entry("ami", -1, e))
    /\ pc' = "validatePlatform"
    /\ UNCHANGED <<cfg, live, meta, idx, result, run, first>>

ValidatePlatformCall ==
    /\ pc = "validatePlatform"
    /\ \E fail \in SUBSET Keys :
       \E ord \in Orders(ValidateSubnetIds) :
       \E r \in {validatePlatform(meta, fail, ord, PlatformPath, cfg.platform,
                                  cfg.networking, cfg.publish)} :
          /\ errs' = AppendErrs(errs, r.errs)
          /\ meta' = r.meta
          /\ out' = out \o r.calls
    /\ pc' = "controlPlane"
    /\ UNCHANGED <<cfg, live, idx, result, run, first>>

ValidateControlPlane ==
    /\ pc = "controlPlane"
    /\ IF ~cfg.controlPlane.PlatformAWS.isNil
       THEN \E fail \in SUBSET PoolKeys :
            \E r \in {validateMachinePool(meta, fail, PoolPath("controlPlane", 0), cfg.platform,
                                          cfg.controlPlane.PlatformAWS, controlPlaneReq)} :
               /\ errs' = AppendErrs(errs, r.errs)
               /\ meta' = r.meta
               /\ out' = Append(out, Entry("controlPlane", -1, r.errs))
       ELSE UNCHANGED <<errs, meta, out>>
    /\ pc' = "compute"
    /\ idx' = 0
    /\ UNCHANGED <<cfg, live, result, run, first>>

\* One iteration of: for idx, compute := range config.Compute
ValidateCompute ==
    /\ pc = "compute"
    /\ idx < Len(cfg.compute)
    /\ LET compute == cfg.compute[idx + 1]
       IN IF ~compute.PlatformAWS.isNil
          THEN \E fail \in SUBSET PoolKeys :
               \E r \in {validateMachinePool(meta, fail, PoolPath("compute", idx), cfg.platform,
                                             compute.PlatformAWS, computeReq)} :
                  /\ errs' = AppendErrs(errs, r.errs)
                  /\ meta' = r.meta
                  /\ out' = Append(out, Entry("compute", idx, r.errs))
          ELSE UNCHANGED <<errs, meta, out>>
    /\ idx' = idx + 1
    /\ UNCHANGED <<cfg, live, pc, result, run, first>>

\* return allErrs.ToAggregate()
Return ==
    /\ pc = "compute"
    /\ idx = Len(cfg.compute)
    /\ result' = ToAggregate(errs)
    /\ pc' = "done"
    /\ UNCHANGED <<cfg, live, meta, errs, idx, out, run, first>>

\* A second run on the same configuration and live state, with a new cache.
Rerun ==
    /\ pc = "done"
    /\ run = 1
    /\ first' = [result |-> result, memo |-> meta.memo]
    /\ run' = 2
    /\ meta' = NewMetadata
    /\ errs' = <<>>
    /\ idx' = 0
    /\ out' = <<>>
    /\ result' = NoResult
    /\ pc' = "Validate"
    /\ UNCHANGED <<cfg, live>>

\* The configurations and live states of the runs of Validate.
RegionStd == [id |-> 1, rhcosAMI |-> TRUE, partition |-> "aws", listed |-> TRUE, ec2Host |-> "ec2.r1"]
RegionGov == [id |-> 2, rhcosAMI |-> FALSE, partition |-> "aws-us-gov", listed |-> TRUE, ec2Host |-> "ec2.r2"]
RegionNew == [id |-> 3, rhcosAMI |-> FALSE, partition |-> "aws", listed |-> FALSE, ec2Host |-> "ec2.r3"]
RegionUnknown == [id |-> 4, rhcosAMI |-> FALSE, partition |-> "", listed |-> FALSE, ec2Host |-> "ec2.r4"]

URLGood == [id |-> 1, e2e |-> FALSE, parses |-> TRUE, scheme |-> "https", host |-> "h1", port |-> 0]
URLBad == [id |-> 2, e2e |-> FALSE, parses |-> TRUE, scheme |-> "https", host |-> "h2", port |-> 0]

PoolA == [isNil |-> FALSE, Zones |-> <<1>>, InstanceType |-> 1, AMIID |-> 0]
PoolB == [isNil |-> FALSE, Zones |-> <<2>>, InstanceType |-> 2, AMIID |-> 0]

ComputePool(p) == [Replicas |-> -1, PlatformAWS |-> p]

MaxCompute == 2

ComputeLists ==
    {<<>>, <<ComputePool(PoolA)>>, <<ComputePool(NilPool), ComputePool(PoolA)>>}
    \cup {l \in [1..MaxCompute -> {ComputePool(PoolA), ComputePool(PoolB)}] : l[1] # l[2]}

TheCatalog ==
    [t \in TypeNames |->
        IF t = 1 THEN [DefaultVCpus |-> 2, MemInMiB |-> 8192]
        ELSE [DefaultVCpus |-> 4, MemInMiB |-> 16384]]

\* The first subnet is private and in zone 1; the second is private, public
\* or unknown to the account.
ValidateLive(subnets) ==
    {[privateSubnets |-> [id \in priv |-> [Zone |-> IF id = 1 THEN 1 ELSE z, CIDR |-> c[id]]],
      publicSubnets |-> [id \in pub |-> [Zone |-> z, CIDR |-> c[id]]],
      availabilityZones |-> <<1>>,
      instanceTypes |-> TheCatalog,
      reachable |-> {<<"h1", 443>>},
      sessionOk |-> TRUE] :
        priv \in {S \in SUBSET Range(subnets) : S # {} => 1 \in S},
        pub \in SUBSET (Range(subnets) \ {1}),
        z \in Zones,
        c \in [ValidateSubnetIds -> {CIDR(4, 2), CIDR(2, 2)}]}

InitValidate ==
    /\ \E platformNil \in BOOLEAN,
          region \in {RegionStd, RegionGov, RegionNew, RegionUnknown},
          amiID \in {0, 1},
          services \in {<<>>, <<[Name |-> "ec2", URL |-> URLBad]>>,
                        <<[Name |-> "ec2", URL |-> URLGood]>>},
          subnets \in {<<>>, <<1, 2>>, <<2, 1>>},
          dmp \in {NilPool, PoolB},
          cp \in {NilPool, PoolA},
          compute \in ComputeLists,
          publish \in {"External"} :
          /\ platformNil =>
                /\ region = RegionStd /\ amiID = 0 /\ services = <<>> /\ subnets = <<>>
                /\ dmp = NilPool /\ cp = NilPool /\ compute = <<>>
          /\ amiID # 0 => region = RegionGov
          /\ services = <<[Name |-> "ec2", URL |-> URLBad]>> => region = RegionStd
          /\ services = <<[Name |-> "ec2", URL |-> URLGood]>> => region = RegionNew
          /\ region = RegionNew => subnets = <<>> /\ compute = <<>>
          /\ cfg = [platformNil |-> platformNil,
                    platform |-> [Region |-> region, AMIID |-> amiID,
                                  ServiceEndpoints |-> services, Subnets |-> subnets,
                                  DefaultMachinePlatform |-> dmp],
                    networking |-> [MachineNetwork |-> <<CIDR(0, 3), CIDR(4, 1)>>],
                    publish |-> publish,
                    controlPlane |-> [PlatformAWS |-> cp],
                    compute |-> compute]
    /\ live \in ValidateLive(cfg.platform.Subnets)
    /\ DOMAIN live.privateSubnets \cap DOMAIN live.publicSubnets = {}
    /\ meta = NewMetadata
    /\ pc = "Validate"
    /\ errs = <<>>
    /\ idx = 0 /\ out = <<>> /\ result = NoResult /\ run = 1 /\ first = NoFirst

Init == InitValidate

Next ==
    \/ CheckPlatform
    \/ ValidateAMICall
    \/ ValidatePlatformCall
    \/ ValidateControlPlane
    \/ ValidateCompute
    \/ Return

Spec == Init /\ [][Next]_vars

\* Two runs of Validate, the second with a new cache.
InitTwice ==
    /\ InitValidate
    /\ cfg.platform.ServiceEndpoints = <<>>
    /\ cfg.platform.DefaultMachinePlatform = NilPool
    /\ Len(cfg.compute) <= 1

NextTwice == Next \/ Rerun

SpecTwice == InitTwice /\ [][NextTwice]_vars

----------------------------------------------------------------------------
(* The AMI check alone: validateAMI on every region, with and without an    *)
(* AMI on the platform, the default machine platform and the pools.         *)

PoolNoAMI == [isNil |-> FALSE, Zones |-> <<>>, InstanceType |-> 0, AMIID |-> 0]
PoolWithAMI == [isNil |-> FALSE, Zones |-> <<>>, InstanceType |-> 0, AMIID |-> 1]

AMIPools == {NilPool, PoolNoAMI, PoolWithAMI}

\* Replicas: nil (-1), zero, or three.
AMIComputes == [Replicas : {-1, 0, 3}, PlatformAWS : AMIPools]

AMIComputeLists == UNION {[1..n -> AMIComputes] : n \in 0..MaxCompute}

InitAMI ==
    /\ \E region \in {RegionStd, RegionGov, RegionNew, RegionUnknown},
          amiID \in {0, 1}, dmp \in AMIPools, cp \in AMIPools, compute \in AMIComputeLists :
          cfg = [platformNil |-> FALSE,
                 platform |-> [Region |-> region, AMIID |-> amiID,
                               ServiceEndpoints |-> <<>>, Subnets |-> <<>>,
                               DefaultMachinePlatform |-> dmp],
                 networking |-> [MachineNetwork |-> <<>>],
                 publish |-> "External",
                 controlPlane |-> [PlatformAWS |-> cp],
                 compute |-> compute]
    /\ live = [reachable |-> {}, sessionOk |-> TRUE]
    /\ meta = NewMetadata
    /\ pc = "validateAMI"
    /\ errs = <<>>
    /\ idx = 0 /\ out = <<>> /\ result = NoResult /\ run = 1 /\ first = NoFirst

NextAMI == ValidateAMICall

SpecAMI == InitAMI /\ [][NextAMI]_vars

----------------------------------------------------------------------------
(* Properties of validateAMI, under SpecAMI. *)

AMIReturned == pc = "validatePlatform"

DeclaresAMI(pool) == ~pool.isNil /\ pool.AMIID # 0

AMIResolvable ==
    \/ cfg.platform.Region.rhcosAMI
    \/ cfg.platform.AMIID # 0
    \/ DeclaresAMI(cfg.platform.DefaultMachinePlatform)
    \/ /\ DeclaresAMI(cfg.controlPlane.PlatformAWS)
       /\ \A i \in DOMAIN cfg.compute :
             cfg.compute[i].Replicas # 0 => DeclaresAMI(cfg.compute[i].PlatformAWS)
    \/ cfg.platform.Region.partition = "aws"

\* C26: validateAMI gives one 'AMI must be provided' diagnostic on
\* platform.aws.amiID, and nothing else, exactly when the region has no
\* published AMI, the platform and the default machine platform declare none,
\* the control-plane pool or some compute pool whose replica count is not
\* zero declares none, and the region is not of the standard partition; in
\* every other case it gives nothing.
C26_AMIRequiredIffNotResolvable ==
    AMIReturned =>
        errs = IF AMIResolvable
               THEN <<>>
               ELSE <<Required(NewPath(<<"platform", "aws", "amiID">>), AMIRequiredMsg)>>

\* Outside the standard partition, the only AMIs are those of the control
\* plane and of the compute pool with replicas; the other compute pool has
\* zero replicas and no AMI: no diagnostic.
C26_Witness ==
    /\ AMIReturned
    /\ cfg.platform.Region = RegionGov
    /\ cfg.platform.AMIID = 0
    /\ ~DeclaresAMI(cfg.platform.DefaultMachinePlatform)
    /\ DeclaresAMI(cfg.controlPlane.PlatformAWS)
    /\ Len(cfg.compute) = 2
    /\ cfg.compute[1].Replicas = 0 /\ ~DeclaresAMI(cfg.compute[1].PlatformAWS)
    /\ cfg.compute[2].Replicas = 3 /\ DeclaresAMI(cfg.compute[2].PlatformAWS)
    /\ errs = <<>>

----------------------------------------------------------------------------
(* Claims about Validate. *)

ValidateDone == pc = "done"

RECURSIVE Produced(_)
\* Every diagnostic the validators returned, in call order.
Produced(calls) == IF calls = <<>> THEN <<>> ELSE Head(calls).errs \o Produced(Tail(calls))

\* C6: two runs of Validate on the same configuration and the same live state,
\* whose lookups gave the same results, return the same diagnostics in the same
\* order.
C6_TwoRunsSameDiagnostics ==
    (ValidateDone /\ run = 2 /\ meta.memo = first.memo) => result = first.result

CallRank(entry) ==
    CASE entry.validator = "ami" -> 1
      [] entry.validator = "serviceEndpoints" -> 2
      [] entry.validator = "subnets" -> 3
      [] entry.validator = "defaultMachinePlatform" -> 4
      [] entry.validator = "controlPlane" -> 5
      [] entry.validator = "compute" -> 6 + entry.index

IsPrefix(p, q) == Len(p) <= Len(q) /\ SubSeq(q, 1, Len(p)) = p

\* C9: the result of Validate is the diagnostics of the validators in call
\* order, AMI, service endpoints, subnets, default machine platform, control
\* plane, then the compute pools by ascending index, each compute pool's
\* diagnostics under compute[i].platform.aws, and none dropped or deduplicated.
C9_ResultInCallOrder ==
    (ValidateDone /\ ~cfg.platformNil) =>
        /\ result.errs = Produced(out)
        /\ \A i, j \in DOMAIN out : i < j => CallRank(out[i]) < CallRank(out[j])
        /\ \A i \in DOMAIN out :
              out[i].validator = "compute" =>
                 \A k \in DOMAIN out[i].errs :
                    IsPrefix(PoolPath("compute", out[i].index), out[i].errs[k].field)

\* Seven validators ran, two of them on compute pools, and every one but the
\* service-endpoint validator produced a diagnostic.
C9_Witness ==
    /\ ValidateDone
    /\ Len(out) = 7
    /\ \A i \in DOMAIN out : out[i].validator # "serviceEndpoints" => out[i].errs # <<>>
    /\ \E i \in DOMAIN out : out[i].validator = "subnets" /\ Len(out[i].errs) >= 2

----------------------------------------------------------------------------
(* Lookup failures and the short-circuit, under Spec. *)

LookupFailed(k) == meta.memo[k].state = "err"

\* The pool a call of validateMachinePool was made on, and its field path.
EntryPool(entry) ==
    CASE entry.validator = "defaultMachinePlatform" -> cfg.platform.DefaultMachinePlatform
      [] entry.validator = "controlPlane" -> cfg.controlPlane.PlatformAWS
      [] entry.validator = "compute" -> cfg.compute[entry.index + 1].PlatformAWS
EntryPath(entry) ==
    IF entry.validator = "subnets" THEN SubnetsPath
    ELSE PoolPath(entry.validator, entry.index)

\* The lookup that gives a pool its available zones.
ZoneKey == IF Len(cfg.platform.Subnets) > 0 THEN "privateSubnets" ELSE "availabilityZones"

\* The diagnostic a validator owes for the lookup that failed in it, if one did.
FailureDiags(entry) ==
    IF entry.validator = "subnets"
    THEN IF LookupFailed("privateSubnets") \/ LookupFailed("publicSubnets")
         THEN {Invalid(SubnetsPath, ListVal(cfg.platform.Subnets), LookupErr("privateSubnets"))}
         ELSE {}
    ELSE IF entry.validator \in {"defaultMachinePlatform", "controlPlane", "compute"}
    THEN LET pool == EntryPool(entry)
             zoneFailed == Len(pool.Zones) > 0 /\ LookupFailed(ZoneKey)
             typeFailed == ~zoneFailed /\ pool.InstanceType # 0 /\ LookupFailed("instanceTypes")
         IN IF zoneFailed \/ typeFailed
            THEN {InternalError(EntryPath(entry), LookupErr(ZoneKey))}
            ELSE {}
    ELSE {}

\* The validators the configuration asks for; those of the platform after the
\* service endpoints depend on what the service-endpoint validator returned.
ExpectedValidators ==
    {<<"ami", -1>>, <<"serviceEndpoints", -1>>}
    \cup (IF Len(out) >= 2 /\ out[2].errs = <<>>
          THEN (IF Len(cfg.platform.Subnets) > 0 THEN {<<"subnets", -1>>} ELSE {})
               \cup (IF ~cfg.platform.DefaultMachinePlatform.isNil
                     THEN {<<"defaultMachinePlatform", -1>>} ELSE {})
          ELSE {})
    \cup (IF ~cfg.controlPlane.PlatformAWS.isNil THEN {<<"controlPlane", -1>>} ELSE {})
    \cup {<<"compute", i - 1>> : i \in {j \in DOMAIN cfg.compute : ~cfg.compute[j].PlatformAWS.isNil}}

\* The statements of Validate still to run: those after the current one, and
\* the iterations of the loop over the compute pools.
StepsLeft ==
    CASE pc = "Validate" -> 5 + Len(cfg.compute)
      [] pc = "validateAMI" -> 4 + Len(cfg.compute)
      [] pc = "validatePlatform" -> 3 + Len(cfg.compute)
      [] pc = "controlPlane" -> 2 + Len(cfg.compute)
      [] pc = "compute" -> 1 + Len(cfg.compute) - idx
      [] pc = "done" -> 0

ValidatorsRun == {<<out[i].validator, out[i].index>> : i \in DOMAIN out}

\* C11: a lookup that fails inside a validator of Validate is in the result as
\* a diagnostic of that validator, no key is fetched a second time, every
\* validator the configuration asks for has run whatever failed before it, and
\* Validate returns: until it has, it has a statement to run, and every step
\* leaves fewer statements to run.
C11_LookupFailureReportedSiblingsRun ==
    /\ [](ValidateDone /\ ~cfg.platformNil =>
            /\ result.returned
            /\ ValidatorsRun = ExpectedValidators
            /\ \A i \in DOMAIN out :
                  \A d \in FailureDiags(out[i]) :
                     /\ \E k \in DOMAIN out[i].errs : out[i].errs[k] = d
                     /\ \E k \in DOMAIN result.errs : result.errs[k] = d
            /\ \A k \in Keys : meta.remote[k] <= 1)
    /\ [](~ValidateDone => StepsLeft > 0)
    /\ [][StepsLeft' < StepsLeft]_vars

\* The private-subnet lookup failed in the subnet validator; the default
\* machine platform, the control plane and two compute pools were validated
\* after it.
C11_Witness ==
    /\ ValidateDone
    /\ LookupFailed("privateSubnets")
    /\ Len(out) = 7
    /\ \E i \in DOMAIN out : out[i].validator = "subnets" /\ FailureDiags(out[i]) # {}
    /\ \E i \in DOMAIN out : out[i].validator = "compute" /\ out[i].index = 1
                             /\ FailureDiags(out[i]) # {}

\* What the service-endpoint validator returned.
ServiceEndpointErrs == out[2].errs

Ran(validator, index) == <<validator, index>> \in ValidatorsRun

\* C14: when the service-endpoint validator returns a diagnostic,
\* validatePlatform returns its diagnostics alone and has run neither the
\* subnet validator nor the default-machine-platform validator, so that no
\* lookup has been made; when it returns none, each of the two runs if
\* configured.  The control-plane and compute pools are validated either way.
C14_ServiceEndpointShortCircuit ==
    /\ pc = "controlPlane" =>
          IF ServiceEndpointErrs # <<>>
          THEN /\ Len(out) = 2
               /\ errs = out[1].errs \o ServiceEndpointErrs
               /\ meta = NewMetadata
          ELSE /\ Ran("subnets", -1) <=> Len(cfg.platform.Subnets) > 0
               /\ Ran("defaultMachinePlatform", -1) <=> ~cfg.platform.DefaultMachinePlatform.isNil
    /\ (ValidateDone /\ ~cfg.platformNil) =>
          /\ Ran("controlPlane", -1) <=> ~cfg.controlPlane.PlatformAWS.isNil
          /\ \A i \in DOMAIN cfg.compute :
                Ran("compute", i - 1) <=> ~cfg.compute[i].PlatformAWS.isNil

\* The service-endpoint validator returned a diagnostic on a platform with
\* subnets and a default machine platform; the control plane and two compute
\* pools were validated after it.
C14_Witness ==
    /\ ValidateDone
    /\ ~cfg.platformNil
    /\ ServiceEndpointErrs # <<>>
    /\ Len(cfg.platform.Subnets) > 0
    /\ ~cfg.platform.DefaultMachinePlatform.isNil
    /\ Len(out) = 5
    /\ Ran("compute", 1)

----------------------------------------------------------------------------
(* The service-endpoint validator alone: validateServiceEndpoints on every  *)
(* kind of region and on lists of endpoint overrides.                       *)

URLE2E == [id |-> 3, e2e |-> TRUE, parses |-> TRUE, scheme |-> "", host |-> "e2e.local", port |-> 0]
URLUnparsable == [id |-> 4, e2e |-> FALSE, parses |-> FALSE, scheme |-> "", host |-> "", port |-> 0]

\* http://h1 and https://h1:8443
URLHttp == [id |-> 5, e2e |-> FALSE, parses |-> TRUE, scheme |-> "http", host |-> "h1", port |-> 0]
URLWithPort == [id |-> 6, e2e |-> FALSE, parses |-> TRUE, scheme |-> "https", host |-> "h1", port |-> 8443]

EndpointURLs == {URLGood, URLBad, URLE2E, URLUnparsable, URLHttp, URLWithPort}

MaxServices == 2

\* An override of every required service but the last n.
RequiredOverrides(url, n) ==
    [i \in 1..(Len(requiredServices) - n) |-> [Name |-> requiredServices[i], URL |-> url]]

ServiceLists ==
    UNION {[1..n -> [Name : {"ec2", "s3"}, URL : EndpointURLs]] : n \in 0..MaxServices}
    \cup {RequiredOverrides(url, n) : url \in {URLGood, URLBad}, n \in {0, 1}}

ServiceEndpointsPath == Child(PlatformPath, "serviceEndpoints")

\* The network operations of validateServiceEndpoints, in order: the dials of
\* validateEndpointAccessibility and the session of validateRegion.
Dial(endpointURL) ==
    IF endpointURL.e2e \/ ~endpointURL.parses THEN <<>>
    ELSE <<[op |-> "dial", host |-> endpointURL.host,
            port |-> IF endpointURL.port = 0 THEN 443 ELSE endpointURL.port]>>

RECURSIVE ServiceDials(_)
ServiceDials(services) ==
    IF services = <<>> THEN <<>>
    ELSE Dial(Head(services).URL) \o ServiceDials(Tail(services))

RegionProbe(region, services) ==
    IF region.partition # "" /\ ~region.listed /\ ~HasEC2Endpoint(services)
    THEN <<[op |-> "session", host |-> region.ec2Host, port |-> 0]>>
         \o (IF live.sessionOk THEN Dial(DefaultEC2Endpoint(region)) ELSE <<>>)
    ELSE <<>>

NetworkOps(region, services) == ServiceDials(services) \o RegionProbe(region, services)

InitEndpoints ==
    /\ cfg \in [region : {RegionStd, RegionGov, RegionNew, RegionUnknown},
                services : ServiceLists]
    /\ live \in [reachable : {{<<"h1", 443>>}, {<<"h1", 443>>, <<"ec2.r3", 443>>},
                             {<<"h1", 80>>, <<"h1", 8443>>}},
                 sessionOk : BOOLEAN]
    /\ meta = NewMetadata
    /\ pc = "validateServiceEndpoints"
    /\ errs = <<>>
    /\ idx = 0 /\ out = <<>> /\ result = NoResult /\ run = 1 /\ first = NoFirst

ValidateServiceEndpointsCall ==
    /\ pc = "validateServiceEndpoints"
    /\ errs' = validateServiceEndpoints(ServiceEndpointsPath, cfg.region, cfg.services)
    /\ out' = NetworkOps(cfg.region, cfg.services)
    /\ pc' = "done"
    /\ UNCHANGED <<cfg, live, meta, idx, result, run, first>>

NextEndpoints == ValidateServiceEndpointsCall

SpecEndpoints == InitEndpoints /\ [][NextEndpoints]_vars

----------------------------------------------------------------------------
(* Properties of validateServiceEndpoints, under SpecEndpoints. *)

EndpointsReturned == pc = "done"

\* A default published partition matches the region.
PartitionFound == cfg.region.partition # ""

Overridden(service) == \E i \in DOMAIN cfg.services : cfg.services[i].Name = service

\* The required services, by their place in the list, that have no endpoint
\* for the region under strict matching: a region that is in no partition's
\* list has the declared overrides only.
WithoutEndpoint ==
    IF cfg.region.listed THEN <<>>
    ELSE SelectSeq([i \in DOMAIN requiredServices |-> i],
                   LAMBDA i : ~Overridden(requiredServices[i]))

MissingServiceDiags ==
    SelectSeq(errs, LAMBDA d : d.detail.msg = "failed to find endpoint for service %q")

\* C15 as stated: for a region of a default published partition, the required
\* services that do not resolve are reported.
C15_KnownRegionServicesReported ==
    (EndpointsReturned /\ PartitionFound /\ WithoutEndpoint # <<>>) =>
        \E i \in DOMAIN MissingServiceDiags :
            MissingServiceDiags[i].detail.args = WithoutEndpoint

\* C15: for a region that no default published partition matches, every
\* required service is resolved, and those that do not resolve are reported
\* together in one diagnostic on the service endpoints; for a region of a
\* partition no required service is reported.
C15_UnmatchedRegionServicesReported ==
    EndpointsReturned =>
        IF ~PartitionFound /\ WithoutEndpoint # <<>>
        THEN /\ Len(MissingServiceDiags) = 1
             /\ MissingServiceDiags[1].field = ServiceEndpointsPath
             /\ MissingServiceDiags[1].detail.args = WithoutEndpoint
        ELSE MissingServiceDiags = <<>>

\* A region of no partition with overrides of ec2 and s3: the five other
\* services are reported.
C15_Witness ==
    /\ EndpointsReturned
    /\ ~PartitionFound
    /\ Overridden("ec2") /\ Overridden("s3")
    /\ Len(MissingServiceDiags) = 1
    /\ Len(MissingServiceDiags[1].detail.args) = 5

ProbeMade == \E i \in DOMAIN out : out[i].op = "session"
ProbeFails ==
    ~live.sessionOk \/ <<cfg.region.ec2Host, 443>> \notin live.reachable
RegionDiags == SelectSeq(errs, LAMBDA d : d.field = Child(ServiceEndpointsPath, "region"))

Accessible(endpointURL) ==
    \/ endpointURL.e2e
    \/ /\ endpointURL.parses
       /\ <<endpointURL.host, IF endpointURL.port = 0 THEN 443 ELSE endpointURL.port>>
             \in live.reachable

\* C16 as stated: the region is probed exactly when it is in no default
\* published partition's list and no EC2 endpoint override was declared.
C16_ProbeIffUnlistedAndNoOverride ==
    EndpointsReturned =>
        (ProbeMade <=> ~cfg.region.listed /\ ~Overridden("ec2"))

\* C16: the region is probed exactly when a default published partition
\* matches it without listing it and no declared EC2 endpoint override was
\* found accessible; the probe goes through a session of the region to its
\* default EC2 endpoint, and there is one diagnostic for the region if the
\* session or the probe fails, none otherwise.
C16_ProbeIffMatchedUnlistedAndNoAccessibleOverride ==
    EndpointsReturned =>
        /\ ProbeMade <=>
              /\ PartitionFound /\ ~cfg.region.listed
              /\ ~\E i \in DOMAIN cfg.services :
                     cfg.services[i].Name = "ec2" /\ Accessible(cfg.services[i].URL)
        /\ Len(RegionDiags) = IF ProbeMade /\ ProbeFails THEN 1 ELSE 0
        /\ (ProbeMade /\ live.sessionOk) =>
              out[Len(out)] = [op |-> "dial", host |-> cfg.region.ec2Host, port |-> 443]

\* The region is matched but not listed, an EC2 override was declared and is
\* unreachable: the region is probed, and the probe fails.
C16_Witness ==
    /\ EndpointsReturned
    /\ ProbeMade
    /\ Overridden("ec2")
    /\ Len(RegionDiags) = 1

\* The diagnostics of the declared overrides' URLs.
URLDiags ==
    SelectSeq(errs, LAMBDA d : \E i \in DOMAIN cfg.services :
                                  d.field = Child(Index(ServiceEndpointsPath, i - 1), "url"))

\* C23: when the required services are resolved (no default published
\* partition matches the region), every one of the seven that has no endpoint
\* is named, whether it comes before or after one that resolves or fails, in
\* one diagnostic on the serviceEndpoints field whose value is the declared
\* overrides, placed after the diagnostics of the overrides' URLs; when all
\* seven resolve, the diagnostics of the URLs are the whole result.
C23_RequiredServicesAggregated ==
    (EndpointsReturned /\ ~PartitionFound) =>
        LET missing == {requiredServices[i] : i \in {j \in DOMAIN requiredServices :
                                                        ~Overridden(requiredServices[j])}}
        IN IF missing = {}
           THEN errs = URLDiags
           ELSE /\ Len(errs) = Len(URLDiags) + 1
                /\ SubSeq(errs, 1, Len(URLDiags)) = URLDiags
                /\ errs[Len(errs)].type = "Invalid value"
                /\ errs[Len(errs)].field = ServiceEndpointsPath
                /\ errs[Len(errs)].value =
                      ListVal([i \in DOMAIN cfg.services |-> cfg.services[i].URL.id])
                /\ {requiredServices[i] : i \in Range(errs[Len(errs)].detail.args)} = missing
                /\ Len(errs[Len(errs)].detail.args) = Cardinality(missing)

\* Only s3 has an override, and its URL is unreachable: ec2 fails first, s3
\* resolves, and the five services after it are still named.
C23_Witness ==
    /\ EndpointsReturned
    /\ ~PartitionFound
    /\ Overridden("s3") /\ ~Overridden("ec2")
    /\ Len(URLDiags) = 1
    /\ Len(errs) = 2
    /\ Len(errs[2].detail.args) = 6

\* The port of the URL, or the default port of its scheme.
SchemePort(endpointURL) ==
    IF endpointURL.port # 0 THEN endpointURL.port
    ELSE IF endpointURL.scheme = "http" THEN 80 ELSE 443

OverrideURLPath(i) == Child(Index(ServiceEndpointsPath, i - 1), "url")

\* The dials of the overrides, in order: the operations before the region's
\* session, if there is one.
OverrideDials == SelectSeq(out, LAMBDA o : o.op = "dial" /\ o.host # cfg.region.ec2Host)

\* C24: every override whose URL parses is probed at the URL's host, on the
\* URL's port or else on the default port of the URL's scheme; an override
\* has one diagnostic on its url field if its URL does not parse or that
\* connection fails, and none otherwise.  (The test name e2e.local is left
\* out.)
C24_ProbeOnSchemePort ==
    (EndpointsReturned /\ \A i \in DOMAIN cfg.services : ~cfg.services[i].URL.e2e) =>
        LET parsed == SelectSeq(cfg.services, LAMBDA sv : sv.URL.parses)
        IN /\ OverrideDials = [i \in DOMAIN parsed |->
                                  [op |-> "dial", host |-> parsed[i].URL.host,
                                   port |-> SchemePort(parsed[i].URL)]]
           /\ \A i \in DOMAIN cfg.services :
                 LET u == cfg.services[i].URL
                     n == Len(SelectSeq(errs, LAMBDA d : d.field = OverrideURLPath(i)))
                 IN n = IF ~u.parses \/ <<u.host, SchemePort(u)>> \notin live.reachable
                        THEN 1 ELSE 0

----------------------------------------------------------------------------
(* ValidateForProvisioning.  A hosted zone id and a base domain are the     *)
(* sequences of their characters, "" the empty one; a VPC id is a number,   *)
(* 0 for "".                                                                *)

\* A nil *route53.GetHostedZoneOutput and a nil *route53.HostedZone.
NilZone == [isNil |-> TRUE, Name |-> <<>>]
NilZoneOutput == [isNil |-> TRUE, HostedZone |-> NilZone, VPCs |-> {}]

RemoteCall(call, fail) == [call |-> call, failed |-> call \in fail]

CannotFindZoneMsg == Detail("cannot find hosted zone", <<>>)
CannotFindBaseDomainMsg == Detail("cannot find base domain", <<>>)
NotAssociatedMsg == Detail("hosted zone is not associated with the VPC", <<>>)
NoVPCMsg == Detail("no VPC found", <<>>)

getBaseDomain(fail, baseDomainPath, baseDomainName) ==
    IF "GetPublicZone" \in fail
    THEN [zone |-> NilZone,
          errs |-> <<Invalid(baseDomainPath, StrVal(baseDomainName), CannotFindBaseDomainMsg)>>]
    ELSE [zone |-> live.zone, errs |-> <<>>]

getHostedZone(fail, hostedZonePath, hostedZoneName) ==
    IF "GetHostedZone" \in fail
    THEN [output |-> NilZoneOutput,
          errs |-> <<Invalid(hostedZonePath, StrVal(hostedZoneName), CannotFindZoneMsg)>>]
    ELSE [output |-> [isNil |-> FALSE, HostedZone |-> live.zone, VPCs |-> live.zoneVPCs],
          errs |-> <<>>]

\* metadata.VPC
VPC(fail) ==
    IF "VPC" \in fail THEN [err |-> TRUE, val |-> 0] ELSE [err |-> FALSE, val |-> live.vpc]

\* panic: hostedZone.VPCs is read through a nil pointer.
isHostedZoneAssociatedWithVPC(hostedZone, vpcID) ==
    IF vpcID = 0 THEN [panic |-> FALSE, val |-> FALSE]
    ELSE IF hostedZone.isNil THEN [panic |-> TRUE, val |-> FALSE]
    ELSE [panic |-> FALSE, val |-> vpcID \in hostedZone.VPCs]

validateHostedZone(fail, hostedZoneOutput, hostedZonePath, hostedZoneName) ==
    LET v == VPC(fail)
    IN IF ~v.err
       THEN LET a == isHostedZoneAssociatedWithVPC(hostedZoneOutput, v.val)
            IN IF a.panic THEN [panic |-> TRUE, errs |-> <<>>]
               ELSE IF ~a.val
               THEN [panic |-> FALSE,
                     errs |-> <<Invalid(hostedZonePath, StrVal(hostedZoneName), NotAssociatedMsg)>>]
               ELSE [panic |-> FALSE, errs |-> <<>>]
       ELSE [panic |-> FALSE,
             errs |-> <<Invalid(hostedZonePath, StrVal(hostedZoneName), NoVPCMsg)>>]

Panic(calls) == [panic |-> TRUE, errs |-> <<>>, result |-> NoResult, calls |-> calls]

\* Lines 386-390, with the zone and the errors of the branch taken.  zoneName
\* and zonePath are the variables of lines 356-357, which no branch assigns:
\* "" and nil.  A nil zone is dereferenced in
\* isHostedZoneDomainParentOfClusterDomain.
ZoneRecordsAndReturn(fail, zone, allErrs, calls, ic) ==
    IF zone.isNil THEN Panic(calls)
    ELSE LET zoneName == <<>>
             zonePath == NilPath
             e == validateZoneRecords(fail, zone, zoneName, zonePath, ic)
             listed == isHostedZoneDomainParentOfClusterDomain(zone, ic.clusterDomain \o <<".">>)
             all == allErrs \o e
         IN [panic |-> FALSE, errs |-> all, result |-> ToAggregate(all),
             calls |-> calls \o (IF listed THEN <<RemoteCall("records", fail)>> ELSE <<>>)]

\* Lines 356-390.
ResolveZoneAndValidate(fail, ic) ==
    IF ic.hostedZone # <<>>
    THEN LET zoneName == ic.hostedZone
             zonePath == NewPath(<<"aws", "hostedZone">>)
             g == getHostedZone(fail, zonePath, zoneName)
             v == validateHostedZone(fail, g.output, zonePath, zoneName)
             calls == <<RemoteCall("GetHostedZone", fail), RemoteCall("VPC", fail)>>
         IN IF v.panic THEN Panic(calls)
            \* zone = zoneOutput.HostedZone
            ELSE IF g.output.isNil THEN Panic(calls)
            ELSE ZoneRecordsAndReturn(fail, g.output.HostedZone, g.errs \o v.errs, calls, ic)
    ELSE LET zoneName == ic.baseDomain
             zonePath == NewPath(<<"baseDomain">>)
             g == getBaseDomain(fail, zonePath, zoneName)
         IN ZoneRecordsAndReturn(fail, g.zone, g.errs, <<RemoteCall("GetPublicZone", fail)>>, ic)

ValidateForProvisioningAnyPublish(fail, ic) == ResolveZoneAndValidate(fail, ic)

ValidateForProvisioning(fail, ic) ==
    IF ic.publish = "Internal"
    THEN [panic |-> FALSE, errs |-> <<>>,
          result |-> [returned |-> TRUE, nil |-> TRUE, errs |-> <<>>], calls |-> <<>>]
    ELSE ResolveZoneAndValidate(fail, ic)

\* The remote calls of ValidateForProvisioning.
ProvisioningCalls == {"GetHostedZone", "GetPublicZone", "VPC", "records"}

ProvisioningRecordSets ==
    [Name : {<<"a", ".">>, <<"b", ".", "a", ".">>, <<"a", ".", "b", ".", "a", ".">>},
     Type : {"A"}]

ProvisioningRecordLists == UNION {[1..n -> ProvisioningRecordSets] : n \in 0..MaxRecords}

InitProvisioning ==
    /\ cfg \in [publish : {"Internal", "External"},
                hostedZone : {<<>>, <<"Z">>},
                baseDomain : {<<"a">>},
                clusterDomain : ClusterDomains]
    /\ \E zn \in ZoneNames, records \in ProvisioningRecordLists, vpcs \in SUBSET {1, 2},
          vpc \in {0, 1} :
       \E n \in 1..MaxPages : \E pages \in Cuts(records, n) :
          live = [zone |-> [isNil |-> FALSE, Name |-> zn], zoneVPCs |-> vpcs,
                  vpc |-> vpc, pages |-> pages]
    /\ meta = NewMetadata
    /\ pc = "ValidateForProvisioning"
    /\ errs = <<>>
    /\ idx = 0 /\ out = <<>> /\ result = NoResult /\ run = 1 /\ first = NoFirst

\* pc is "panic" after a nil pointer dereference: the function has not returned.
ValidateForProvisioningCall ==
    /\ pc = "ValidateForProvisioning"
    /\ \E fail \in SUBSET ProvisioningCalls :
       \E r \in {ValidateForProvisioning(fail, cfg)} :
          /\ pc' = IF r.panic THEN "panic" ELSE "done"
          /\ errs' = r.errs
          /\ result' = r.result
          /\ out' = r.calls
    /\ UNCHANGED <<cfg, live, meta, idx, run, first>>

NextProvisioning == ValidateForProvisioningCall

SpecProvisioning == InitProvisioning /\ [][NextProvisioning]_vars

----------------------------------------------------------------------------
(* Properties of ValidateForProvisioning, under SpecProvisioning. *)

ProvisioningCalled == pc # "ValidateForProvisioning"
ProvisioningReturned == pc = "done"

CallFailed(call) == \E i \in DOMAIN out : out[i].call = call /\ out[i].failed
CallMade(call) == \E i \in DOMAIN out : out[i].call = call

HostedZonePath == NewPath(<<"aws", "hostedZone">>)

\* The configuration node the zone comes from, and the zone's identifier.
ConfiguredZonePath == IF cfg.hostedZone # <<>> THEN HostedZonePath ELSE NewPath(<<"baseDomain">>)
ConfiguredZoneName == IF cfg.hostedZone # <<>> THEN cfg.hostedZone ELSE cfg.baseDomain

ResultHas(d) == \E i \in DOMAIN result.errs : result.errs[i] = d

\* C12: when the lookup of the hosted zone by its id fails,
\* ValidateForProvisioning returns, and its error has the 'cannot find hosted
\* zone' diagnostic on aws.hostedZone, not the 'hosted zone is not associated
\* with the VPC' diagnostic in its place.
C12_HostedZoneLookupFailureReported ==
    (ProvisioningCalled /\ CallFailed("GetHostedZone")) =>
        /\ ProvisioningReturned
        /\ result.returned /\ ~result.nil
        /\ ResultHas(Invalid(HostedZonePath, StrVal(cfg.hostedZone), CannotFindZoneMsg))

\* C13: every diagnostic ValidateForProvisioning returns has the field path of
\* the configuration node of the zone (aws.hostedZone with a hosted zone id,
\* baseDomain without), and an invalid-value diagnostic has the zone's
\* identifier as its value.
C13_DiagnosticsFieldAddressed ==
    ProvisioningReturned =>
        \A i \in DOMAIN result.errs :
            /\ result.errs[i].field = ConfiguredZonePath
            /\ result.errs[i].type = "Invalid value" =>
                  result.errs[i].value = StrVal(ConfiguredZoneName)

\* C20: with the internal publishing strategy ValidateForProvisioning returns
\* nil and has made no remote call: no zone was resolved, no VPC looked up and
\* no record set listed.
C20_InternalPublishingDoesNothing ==
    (ProvisioningCalled /\ cfg.publish = "Internal") =>
        /\ ProvisioningReturned
        /\ result.returned /\ result.nil
        /\ out = <<>>
        /\ meta = NewMetadata

\* Internal publishing with a hosted zone id, on a zone that holds a record of
\* the cluster's domain and is associated with no VPC.
C20_Witness ==
    /\ ProvisioningReturned
    /\ cfg.publish = "Internal"
    /\ cfg.hostedZone # <<>>
    /\ live.zoneVPCs = {}
    /\ \E i \in DOMAIN live.pages : \E j \in DOMAIN live.pages[i] :
          StrictSubDomain(live.pages[i][j].Name, DottedClusterDomain)

\* C27: without a hosted zone id, when no public zone is found for the base
\* domain, ValidateForProvisioning returns, its error has the 'cannot find
\* base domain' diagnostic on baseDomain, and no record set was listed.
C27_BaseDomainLookupFailureReported ==
    (ProvisioningCalled /\ cfg.hostedZone = <<>> /\ CallFailed("GetPublicZone")) =>
        /\ ProvisioningReturned
        /\ result.returned /\ ~result.nil
        /\ ResultHas(Invalid(NewPath(<<"baseDomain">>), StrVal(cfg.baseDomain),
                             CannotFindBaseDomainMsg))
        /\ ~CallMade("records")

=============================================================================
